---- MODULE Spec2Model ----
(***************************************************************************)
(* A model of the store engine of read-pinia (an annotated copy of Pinia   *)
(* 2.0.34): the registry (createPinia), the accessor (defineStore /        *)
(* useStore), the store factory (createOptionsStore / createSetupStore     *)
(* with $patch, $reset, $subscribe, $dispose, wrapAction and the $state    *)
(* accessor), the merge engine (mergeReactiveObjects) and the subscription *)
(* lists (addSubscription / triggerSubscriptions).                         *)
(*                                                                         *)
(* Objects live in a heap so that identity (===) and aliasing are part of  *)
(* the state.  The reactivity provider (vue-demi) is modelled by its       *)
(* contract: a deep watcher is triggered by a write that changes a cell of *)
(* the watched tree; a watcher with flush 'sync' runs inside the write, a  *)
(* watcher with the default flush is queued and run by the scheduler's     *)
(* flush microtask; nextTick() resolves after the pending flush.           *)
(***************************************************************************)
EXTENDS Integers, Sequences, FiniteSets, TLC

\* ------------------------------------------------------------------ bounds
\* Number of API calls (accessor, $patch, writes, $subscribe, ...) in one
\* behaviour; microtasks are not counted.
MaxOps == 5
\* The same for the specifications with many inputs per call.
MaxPatchOps == 4
\* The same for the life cycle of one store with its subscribers.
MaxDisposeOps == 6
\* The same for the configuration errors.
MaxErrorOps == 4
\* The same for the overlapping and nested $patch calls.
MaxListenOps == 5
\* The same for the stores whose setup functions call accessors.
MaxBuildOps == 4
\* Depth of nested constructions after which the call stack is exhausted.
MaxNesting == 3
\* The same for the subscribers that act on the subscription list.
MaxSubsOps == 5
\* The same for the stores built over state installed beforehand.
MaxHydrateOps == 4
\* The same for the calls that set the active registry.
MaxPointerOps == 4
\* The same for the sequences of object-form $patch calls.
MaxPayloadOps == 4
\* The same for the removers called before later writes.
MaxUnsubOps == 7

\* ------------------------------------------------------------------ inputs
\* Two registries, as returned by two calls of createPinia().
Pinias == {1, 2}
\* Two declarations: defineStore("opt", {state, actions}) and
\* defineStore("set", () => ({a: ref(1), ...})).
StoreIds == {"opt", "set"}
\* A third declaration, defineStore("col", {state, getters: {a, c}}), whose
\* getter a has the name of a state field.
DeclaredIds == StoreIds \cup {"col"}
\* Setup declarations whose setup function calls an accessor: "ma" calls
\* the accessor of "mb", "mb" the one of "ma", and "self" its own.
MutualIds == {"ma", "mb", "self"}
\* A setup declaration with a field marked skipHydrate:
\* defineStore("hyd", () => ({a: ref(1), b: skipHydrate(ref(2)),
\* c: computed(...)})).
HydratedIds == {"hyd"}
AllIds == DeclaredIds \cup MutualIds \cup HydratedIds
\* State-change subscriber callbacks (function identities).
Callbacks == {1, 2}
\* Ambient effect scopes of callers (component scopes); 0 is "no scope".
Scopes == {1}
Keys == {"a", "b", "c"}
\* Enumeration order of the keys of an object literal (for ... in).
KeyOrder == <<"a", "b", "c">>

\* ------------------------------------------------------------------ values
\* A value is a number, undefined, or a reference to a heap object; "abs"
\* marks a key that is not an own property.
Absent == [k |-> "abs", v |-> 0]
Undef == [k |-> "undef", v |-> 0]
Num(n) == [k |-> "num", v |-> n]
Obj(o) == [k |-> "obj", v |-> o]
EmptyObject == [key \in Keys |-> Absent]

\* Object literals: a sequence of objects whose references are relative to
\* the literal (1 is the root).  Evaluating a literal allocates fresh objects.
LitStateInit ==
  << [EmptyObject EXCEPT !["a"] = Num(1), !["b"] = Obj(2)],
     [EmptyObject EXCEPT !["c"] = Num(2)] >>
LitNestedC3 ==
  << [EmptyObject EXCEPT !["b"] = Obj(2)],
     [EmptyObject EXCEPT !["c"] = Num(3)] >>
LitNestedA5 ==
  << [EmptyObject EXCEPT !["b"] = Obj(2)],
     [EmptyObject EXCEPT !["a"] = Num(5)] >>
LitA2 == << [EmptyObject EXCEPT !["a"] = Num(2)] >>
LitBNum == << [EmptyObject EXCEPT !["b"] = Num(7)] >>
LitAObj ==
  << [EmptyObject EXCEPT !["a"] = Obj(2)],
     [EmptyObject EXCEPT !["c"] = Num(4)] >>
LitA5B7 == << [EmptyObject EXCEPT !["a"] = Num(5), !["b"] = Num(7)] >>
LitCUndef == << [EmptyObject EXCEPT !["c"] = Undef] >>
LitEmpty == << EmptyObject >>

Alloc(h, lit) ==
  h \o [j \in 1..Len(lit) |->
          [key \in Keys |->
             IF lit[j][key].k = "obj"
               THEN Obj(lit[j][key].v + Len(h))
               ELSE lit[j][key]]]

\* The value of an object as plain data (what JSON would show), used to
\* compare contents irrespective of identity.  depth bounds the unfolding.
RECURSIVE Deep(_, _, _)
Deep(h, val, depth) ==
  IF val.k = "obj" /\ depth > 0
    THEN [key \in Keys |-> Deep(h, h[val.v][key], depth - 1)]
    ELSE val

MaxDepth == 3
DeepObj(h, o) == Deep(h, Obj(o), MaxDepth)

\* ------------------------------------------------------------ merge engine
isPlainObject(val) == val.k = "obj"
hasOwnProperty(h, o, key) == h[o][key].k # "abs"
SetProp(h, o, key, val) == [h EXCEPT ![o][key] = val]

\* Object.assign(target, source): shallow copy of the own keys.
RECURSIVE assignKeys(_, _, _, _)
assignKeys(h, target, source, ks) ==
  IF ks = <<>> THEN h
  ELSE IF hasOwnProperty(h, source, Head(ks))
    THEN assignKeys(SetProp(h, target, Head(ks), h[source][Head(ks)]),
                    target, source, Tail(ks))
    ELSE assignKeys(h, target, source, Tail(ks))

assign(h, target, source) == assignKeys(h, target, source, KeyOrder)

\* mergeReactiveObjects(target, patchToApply): the heap after the merge.
\* Payloads are plain data (no ref, no reactive proxy, no Map or Set).
RECURSIVE mergeKeys(_, _, _, _)
mergeKeys(h, target, patchToApply, ks) ==
  IF ks = <<>> THEN h
  ELSE
    LET key == Head(ks)
        subPatch == h[patchToApply][key]
        targetValue == h[target][key]
    IN IF ~hasOwnProperty(h, patchToApply, key)
         THEN mergeKeys(h, target, patchToApply, Tail(ks))
       ELSE IF /\ isPlainObject(targetValue)
               /\ isPlainObject(subPatch)
               /\ hasOwnProperty(h, target, key)
         THEN LET h1 == mergeKeys(h, targetValue.v, subPatch.v, KeyOrder)
              IN mergeKeys(SetProp(h1, target, key, targetValue),
                           target, patchToApply, Tail(ks))
       ELSE mergeKeys(SetProp(h, target, key, subPatch),
                      target, patchToApply, Tail(ks))

mergeReactiveObjects_shallow(h, target, patchToApply) ==
  assign(h, target, patchToApply)

mergeReactiveObjects(h, target, patchToApply) ==
  mergeKeys(h, target, patchToApply, KeyOrder)

\* Number of cells of the objects of h that differ in h2 (h2 extends h).
ChangedCells(h, h2) ==
  Cardinality({c \in (1..Len(h)) \X Keys : h2[c[1]][c[2]] # h[c[1]][c[2]]})

\* ------------------------------------------------------------------- state
VARIABLES
  heap,          \* the objects, by identity: Seq of [Keys -> value]
  state,         \* pinia.state.value: [Pinias -> [StoreIds -> object or 0]]
  registry,      \* pinia._s: [Pinias -> [StoreIds -> store instance or 0]]
  stores,        \* the store instances built so far, by identity
  lists,         \* the subscription arrays, by identity: Seq of Seq
  regs,          \* the $subscribe registrations (remover + watcher)
  scopes,        \* callers' effect scopes: [Scopes -> active?]
  mq,            \* the microtask queue
  waiting,       \* nextTick callbacks chained on the pending flush promise
  flushPending,  \* the scheduler has a flush queued (currentFlushPromise)
  activePinia,   \* the process-wide active registry, 0 when unset
  calls,         \* the wrapped action calls that returned a promise
  log,           \* history: the calls made and the callbacks invoked
  nops,          \* number of API calls made
  dev,           \* the build flag __DEV__
  piniaActive,   \* pinia._e.active: [Pinias -> BOOLEAN]
  attached,      \* pinia._a is set: [Pinias -> BOOLEAN]
  plugins,       \* pinia._p, the active list: [Pinias -> Seq of plugin]
  toBeInstalled  \* the pending buffer: [Pinias -> Seq of plugin]

\* The registry-level variables of the host integration.
hostVars == << dev, piniaActive, attached, plugins, toBeInstalled >>

vars == << heap, state, registry, stores, lists, regs, scopes, mq, waiting,
           flushPending, activePinia, calls, log, nops, dev, piniaActive,
           attached, plugins, toBeInstalled >>

isOptionsStore(id) == id \in {"opt", "col"}

\* The accessors the setup function of a declaration calls, in order.
Uses(id) ==
  CASE id = "ma" -> << "mb" >>
    [] id = "mb" -> << "ma" >>
    [] id = "self" -> << "self" >>
    [] OTHER -> <<>>

\* The names of the getters of a declaration.
Getters(id) == IF id = "col" THEN {"a", "c"} ELSE {}

\* MutationType
direct == "direct"
patchObject == "patch object"
patchFunction == "patch function"

\* History records all have the same shape.
Event(e, i, cb, type, via, subs, o) ==
  [e |-> e, i |-> i, cb |-> cb, type |-> type, via |-> via, subs |-> subs,
   o |-> o]

Indices(n) == [j \in 1..n |-> j]

RECURSIVE Repeat(_, _)
Repeat(s, n) == IF n = 0 THEN <<>> ELSE s \o Repeat(s, n - 1)

\* The state after createPinia() has been called for each registry, in a
\* build whose flag __DEV__ is d.
InitBuild(d) ==
  /\ dev = d
  /\ piniaActive = [p \in Pinias |-> TRUE]
  /\ attached = [p \in Pinias |-> FALSE]
  /\ plugins = [p \in Pinias |-> <<>>]
  /\ toBeInstalled = [p \in Pinias |-> <<>>]

\* The value of __DEV__ in the build of the application.
DevBuild == TRUE

Init ==
  /\ InitBuild(DevBuild)
  /\ heap = <<>>
  /\ state = [p \in Pinias |-> [id \in AllIds |-> 0]]
  /\ registry = [p \in Pinias |-> [id \in AllIds |-> 0]]
  /\ stores = <<>>
  /\ lists = <<>>
  /\ regs = <<>>
  /\ scopes = [sc \in Scopes |-> TRUE]
  /\ mq = <<>>
  /\ waiting = <<>>
  /\ flushPending = FALSE
  /\ activePinia = 0
  /\ calls = <<>>
  /\ log = <<>>
  /\ nops = 0

\* ------------------------------------------------------------ store factory
\* The slot of a store: pinia.state.value[$id].
Slot(st, i) == st[stores[i].pinia][stores[i].id]

\* store.$state (getter of the accessor property, hot excluded).
StateGetter(st, i) == st[stores[i].pinia][stores[i].id]

\* The names of the actions of the options declarations:
\* defineStore("opt", {state, actions: {c() {...}}}).
Actions(id) == IF id = "opt" THEN {"c"} ELSE {}

\* What a setup function returns: properties in enumeration order, each a
\* ref (with the value setup gave it, possibly marked by skipHydrate), a
\* computed or a function.
Prop(key, kind, val, skip) ==
  [key |-> key, kind |-> kind, val |-> val, skip |-> skip]
SetupResult(id) ==
  IF id \in HydratedIds
    THEN << Prop("a", "ref", Num(1), FALSE), Prop("b", "ref", Num(2), TRUE),
            Prop("c", "computed", Undef, FALSE) >>
    ELSE << Prop("a", "ref", Num(1), FALSE),
            Prop("b", "computed", Undef, FALSE),
            Prop("c", "function", Undef, FALSE) >>

\* isPlainObject of a ref (an object created by ref()).
RefIsPlainObject == TRUE

\* shouldHydrate(prop) for a ref: skipHydrate defines skipHydrateSymbol as
\* an own property of the object it is given.
shouldHydrate(prop) == ~RefIsPlainObject \/ ~prop.skip

\* initialState[key]: undefined when the object has no such property.
GetProp(h, o, key) == IF h[o][key].k = "abs" THEN Undef ELSE h[o][key]

RECURSIVE Classify_all(_, _, _, _)
Classify_all(h, slot, initialState, props) ==
  IF props = <<>> THEN h
  ELSE Classify_all(SetProp(h, slot, Head(props).key, Head(props).val),
                    slot, initialState, Tail(props))

\* The loop over the properties setup returned, for a setup store: a ref is
\* assigned initialState[key] when there is an initial state and the ref
\* should be hydrated, and is then installed in the slot under its key;
\* computeds and functions do not reach the slot.
RECURSIVE Classify(_, _, _, _)
Classify(h, slot, initialState, props) ==
  IF props = <<>> THEN h
  ELSE
    LET prop == Head(props)
        value == IF initialState /\ shouldHydrate(prop)
                   THEN GetProp(h, slot, prop.key)
                   ELSE prop.val
    IN Classify(IF prop.kind = "ref" THEN SetProp(h, slot, prop.key, value)
                                     ELSE h,
                slot, initialState, Tail(props))

\* createSetupStore for a setup declaration: an empty slot is installed
\* when the tree has no entry, then the properties are classified.
SetupHeapAfterBuild(p, id) ==
  IF state[p][id] = 0
    THEN Classify(Alloc(heap, LitEmpty), Len(heap) + 1, FALSE,
                  SetupResult(id))
    ELSE Classify(heap, state[p][id], TRUE, SetupResult(id))

HeapAfterBuild_reinit(p, id) ==
  IF isOptionsStore(id)
    THEN Alloc(heap, LitStateInit)
    ELSE SetupHeapAfterBuild(p, id)

\* createOptionsStore / createSetupStore for (pinia, id): the heap and the
\* state tree after the state has been materialised.
\*  - options: state() is installed only when the tree has no entry;
\*  - setup: an empty slot is installed when the tree has no entry, then
\*    the refs returned by setup are hydrated from the prior state and
\*    installed under their keys.
HeapAfterBuild(p, id) ==
  IF isOptionsStore(id)
    THEN IF state[p][id] = 0 THEN Alloc(heap, LitStateInit) ELSE heap
    ELSE SetupHeapAfterBuild(p, id)

SlotAfterBuild(p, id) ==
  IF state[p][id] = 0 THEN Len(heap) + 1 ELSE state[p][id]

\* Extensions (plugins): function identities, the keys they may add to a
\* store, and the mapping each returns (0: the key is not returned).
Plugins == {1, 2, 3}
PluginKeys == {"x", "y"}
NoProps == [k \in PluginKeys |-> 0]
Extension(pl) ==
  CASE pl = 1 -> [x |-> 1, y |-> 0]
    [] pl = 2 -> [x |-> 2, y |-> 2]
    [] OTHER -> NoProps

\* assign(store, extensions)
assignProps(props, ext) ==
  [k \in PluginKeys |-> IF ext[k] # 0 THEN ext[k] ELSE props[k]]

RECURSIVE ApplyPlugins_firstWins(_, _)
ApplyPlugins_firstWins(props, ps) ==
  IF ps = <<>> THEN props
  ELSE assignProps(ApplyPlugins_firstWins(props, Tail(ps)),
                   Extension(Head(ps)))

\* pinia._p.forEach(extender => assign(store, scope.run(() =>
\* extender({store, app, pinia, options})))): the custom properties of the
\* store after the loop.
RECURSIVE ApplyPlugins(_, _)
ApplyPlugins(props, ps) ==
  IF ps = <<>> THEN props
  ELSE ApplyPlugins(assignProps(props, Extension(Head(ps))), Tail(ps))

\* The calls of the extenders made by the loop for store i of (p, id): the
\* context holds the store, the registry and the options of the declaration.
PluginCalls(i, p, id, ps) ==
  [j \in 1..Len(ps) |-> Event("extend", i, ps[j], id, "", <<>>, p)]

\* The getters whose name is a key of localState, the refs of the state
\* slot: each is reported with console.warn in a build with __DEV__, and
\* the computed getter then takes the place of the ref in the setup result.
Colliding(h, slot, id) ==
  {name \in Getters(id) : hasOwnProperty(h, slot, name)}

GetterWarnings_none(i, h, slot, id) == <<>>

GetterWarnings(i, h, slot, id) ==
  IF dev
    THEN LET names == SelectSeq(KeyOrder,
                                LAMBDA k : k \in Colliding(h, slot, id))
         IN [j \in 1..Len(names) |->
               Event("warn", i, 0, names[j], "getter", <<>>, 0)]
    ELSE <<>>

NewStore(p, id) ==
  [id |-> id, pinia |-> p,
   shadowed |-> Colliding(HeapAfterBuild(p, id), SlotAfterBuild(p, id), id),
   isListening |-> TRUE, isSyncListening |-> TRUE,
   activeListener |-> 0,
   subscriptions |-> Len(lists) + 1,
   actionSubscriptions |-> Len(lists) + 2,
   onActionList |-> Len(lists) + 2,
   scopeActive |-> TRUE,
   target |-> SlotAfterBuild(p, id),
   props |-> ApplyPlugins(NoProps, plugins[p])]

HasStore_never(p, id) == FALSE

\* pinia._s.has(id)
HasStore(p, id) == registry[p][id] # 0

Resolve_first(p) ==
  IF p # 0 THEN p ELSE IF activePinia # 0 THEN activePinia ELSE 1

\* setActivePinia(pinia): the active registry after the call.
setActivePinia(pinia) == pinia

\* The registry useStore works on: the explicit argument (or the injected
\* registry), else the active one; 0 when there is none.
Resolve(p) == IF p # 0 THEN p ELSE activePinia

PiniaDestroyed_never(p) == FALSE

\* __DEV__ && !pinia._e.active
PiniaDestroyed(p) == dev /\ ~piniaActive[p]

\* The objects a construction works on, threaded through the nested calls
\* of a setup function that calls accessors; thrown: the call stack was
\* exhausted.
World ==
  [heap |-> heap, state |-> state, registry |-> registry, stores |-> stores,
   lists |-> lists, log |-> log, thrown |-> FALSE]

Logged(w, ev) == [w EXCEPT !.log = Append(@, ev)]

RegisterPartial_never(w, p, id, i) == w

\* pinia._s.set($id, store), before the setup function runs.
RegisterPartial(w, p, id, i) == [w EXCEPT !.registry[p][id] = i]

\* createSetupStore for a setup declaration (Construct) and the run of its
\* setup function (RunSetup), which calls the accessors of deps without a
\* registry argument: the slot is created when the tree has none, the
\* partial store is registered, setup runs, the ref a = ref(1) it returns
\* is hydrated and installed, the extensions are applied and the flags set.
RECURSIVE Construct(_, _, _, _)
RECURSIVE RunSetup(_, _, _, _)
Construct(w, p, id, fuel) ==
  LET fresh == w.state[p][id] = 0
      slot == IF fresh THEN Len(w.heap) + 1 ELSE w.state[p][id]
      i == Len(w.stores) + 1
      partial ==
        [id |-> id, pinia |-> p, shadowed |-> {},
         isListening |-> FALSE, isSyncListening |-> FALSE,
         activeListener |-> 0,
         subscriptions |-> Len(w.lists) + 1,
         actionSubscriptions |-> Len(w.lists) + 2,
         onActionList |-> Len(w.lists) + 2,
         scopeActive |-> FALSE, target |-> slot, props |-> NoProps]
      w1 == [w EXCEPT !.heap = IF fresh THEN Alloc(@, LitEmpty) ELSE @,
                      !.state[p][id] = slot,
                      !.stores = Append(@, partial),
                      !.lists = @ \o << <<>>, <<>> >>]
      w2 == RegisterPartial(w1, p, id, i)
      w3 == RunSetup(Logged(w2, Event("setup", i, p, id, "", <<>>, 0)),
                     p, Uses(id), fuel)
      h == w3.heap
  IN IF w3.thrown THEN w3
     ELSE [w3 EXCEPT
             !.heap = Classify(h, slot, ~fresh, SetupResult(id)),
             !.stores[i] = [@ EXCEPT !.isListening = TRUE,
                                     !.isSyncListening = TRUE,
                                     !.scopeActive = TRUE,
                                     !.props = ApplyPlugins(NoProps,
                                                            plugins[p])],
             !.log = @ \o PluginCalls(i, p, id, plugins[p])]

RunSetup(w, p, deps, fuel) ==
  IF deps = <<>> \/ w.thrown THEN w
  ELSE
    LET id == Head(deps)
    IN IF w.registry[p][id] # 0
         THEN RunSetup(Logged(w, Event("use", w.registry[p][id], p, id,
                                       "cached", <<>>, 0)),
                       p, Tail(deps), fuel)
       ELSE IF fuel = 0
         THEN [Logged(w, Event("use", 0, p, id, "overflow", <<>>, 0))
                 EXCEPT !.thrown = TRUE]
       ELSE LET w1 == Construct(w, p, id, fuel - 1)
            IN IF w1.thrown THEN w1
               ELSE RunSetup(Logged(w1, Event("use", Len(w.stores) + 1, p,
                                              id, "built", plugins[p], 0)),
                             p, Tail(deps), fuel)

\* The store is created and registered, its state materialised and the
\* extensions applied.
BuildStore(p, id, arg) ==
  IF Uses(id) = <<>>
    THEN
  /\ heap' = HeapAfterBuild(p, id)
  /\ state' = [state EXCEPT ![p][id] = SlotAfterBuild(p, id)]
  /\ stores' = Append(stores, NewStore(p, id))
  /\ lists' = lists \o << <<>>, <<>> >>
  /\ registry' = [registry EXCEPT ![p][id] = Len(stores) + 1]
  /\ log' = log \o GetterWarnings(Len(stores) + 1, HeapAfterBuild(p, id),
                                   SlotAfterBuild(p, id), id)
                \o PluginCalls(Len(stores) + 1, p, id, plugins[p])
                \o << Event("use", Len(stores) + 1, p, id, "built",
                            plugins[p], arg) >>
    ELSE
  LET w == Construct(World, p, id, MaxNesting)
  IN /\ heap' = w.heap
     /\ state' = w.state
     /\ stores' = w.stores
     /\ lists' = w.lists
     /\ registry' = w.registry
     /\ log' = Append(w.log,
                      Event("use", IF w.thrown THEN 0 ELSE Len(stores) + 1,
                            p, id, IF w.thrown THEN "overflow" ELSE "built",
                            plugins[p], arg))

\* createSetupStore on a registry whose scope was stopped, when the build
\* has no check for it: the slot of a setup store is created and the store
\* registered before pinia._e.run returns undefined without running
\* setup; the store's scope is never created, so the extension loop throws
\* a TypeError at its first extender.
BuildStoreUnchecked(p, id, arg) ==
  LET fresh == ~isOptionsStore(id) /\ state[p][id] = 0
      slot == IF fresh THEN Len(heap) + 1 ELSE state[p][id]
      thrown == plugins[p] # <<>>
  IN /\ heap' = IF fresh THEN Alloc(heap, LitEmpty) ELSE heap
     /\ state' = [state EXCEPT ![p][id] = slot]
     /\ stores' = Append(stores,
          [NewStore(p, id) EXCEPT !.scopeActive = FALSE, !.target = slot,
                                  !.isListening = ~thrown,
                                  !.isSyncListening = ~thrown,
                                  !.props = NoProps])
     /\ lists' = lists \o << <<>>, <<>> >>
     /\ registry' = [registry EXCEPT ![p][id] = Len(stores) + 1]
     /\ log' = Append(log, Event("use", IF thrown THEN 0
                                                  ELSE Len(stores) + 1,
                                 p, id,
                                 IF thrown THEN "threw" ELSE "built",
                                 <<>>, arg))

\* useStore(pinia): the accessor returned by defineStore(id, ...); p is 0
\* when no registry is passed or injected.  The events record the registry
\* worked on (cb) and the argument (o).
UseStore(p, id) ==
  LET pinia == Resolve(p)
  IN /\ nops' = nops + 1
     /\ UNCHANGED << hostVars, calls, regs, scopes, mq, waiting,
                     flushPending >>
     /\ IF pinia = 0
          THEN \* Error "no active Pinia" (1038), or the TypeError of
               \* pinia._s on undefined (1052)
               /\ log' = Append(log, Event("use", 0, 0, id, "threw",
                                           <<>>, p))
               /\ UNCHANGED << activePinia, heap, state, stores, lists,
                               registry >>
          ELSE /\ activePinia' = setActivePinia(pinia)
               /\ IF HasStore(pinia, id)
                    THEN /\ log' = Append(log,
                              Event("use", registry[pinia][id], pinia, id,
                                    "cached", <<>>, p))
                         /\ UNCHANGED << heap, state, stores, lists,
                                         registry >>
                    ELSE IF PiniaDestroyed(pinia)
                      THEN \* Error 'Pinia destroyed' (270)
                           /\ log' = Append(log,
                                Event("use", 0, pinia, id, "destroyed",
                                      <<>>, p))
                           /\ UNCHANGED << heap, state, stores, lists,
                                           registry >>
                      ELSE IF piniaActive[pinia]
                        THEN BuildStore(pinia, id, p)
                        ELSE BuildStoreUnchecked(pinia, id, p)

\* pinia.state.value[id] = lit, written by the application before the
\* store is built (state received from the server or from storage).
InstallState(p, id, lit) ==
  /\ state[p][id] = 0
  /\ registry[p][id] = 0
  /\ heap' = Alloc(heap, lit)
  /\ state' = [state EXCEPT ![p][id] = Len(heap) + 1]
  /\ log' = Append(log, Event("install", 0, p, id, "", <<>>, Len(heap) + 1))
  /\ nops' = nops + 1
  /\ UNCHANGED << hostVars, calls, registry, stores, lists, regs, scopes, mq,
                  waiting, flushPending, activePinia >>

Use_retroactive(p, pl) ==
  /\ IF ~attached[p]
       THEN /\ toBeInstalled' = [toBeInstalled EXCEPT ![p] = Append(@, pl)]
            /\ UNCHANGED << plugins, stores >>
       ELSE /\ plugins' = [plugins EXCEPT ![p] = Append(@, pl)]
            /\ stores' = [i \in 1..Len(stores) |->
                 IF stores[i].pinia = p
                   THEN [stores[i] EXCEPT
                           !.props = assignProps(@, Extension(pl))]
                   ELSE stores[i]]
            /\ UNCHANGED toBeInstalled
  /\ log' = Append(log, Event("usePlugin", 0, pl, "",
                              IF attached[p] THEN "active" ELSE "buffered",
                              <<>>, p))
  /\ nops' = nops + 1
  /\ UNCHANGED << dev, piniaActive, attached, heap, state, registry, lists,
                  regs, scopes, mq, waiting, flushPending, activePinia,
                  calls >>

\* pinia.use(plugin)
Use(p, pl) ==
  /\ IF ~attached[p]
       THEN /\ toBeInstalled' = [toBeInstalled EXCEPT ![p] = Append(@, pl)]
            /\ UNCHANGED plugins
       ELSE /\ plugins' = [plugins EXCEPT ![p] = Append(@, pl)]
            /\ UNCHANGED toBeInstalled
  /\ log' = Append(log, Event("usePlugin", 0, pl, "",
                              IF attached[p] THEN "active" ELSE "buffered",
                              <<>>, p))
  /\ nops' = nops + 1
  /\ UNCHANGED << dev, piniaActive, attached, heap, state, registry, stores,
                  lists, regs, scopes, mq, waiting, flushPending,
                  activePinia, calls >>

Install_keepBuffer(p) ==
  /\ activePinia' = p
  /\ attached' = [attached EXCEPT ![p] = TRUE]
  /\ plugins' = [plugins EXCEPT ![p] = @ \o toBeInstalled[p]]
  /\ log' = Append(log, Event("install", 0, 0, "", "", toBeInstalled[p], p))
  /\ nops' = nops + 1
  /\ UNCHANGED << dev, piniaActive, toBeInstalled, heap, state, registry,
                  stores, lists, regs, scopes, mq, waiting, flushPending,
                  calls >>

\* app.use(pinia): pinia.install(app)
Install(p) ==
  /\ activePinia' = p
  /\ attached' = [attached EXCEPT ![p] = TRUE]
  /\ plugins' = [plugins EXCEPT ![p] = @ \o toBeInstalled[p]]
  /\ toBeInstalled' = [toBeInstalled EXCEPT ![p] = <<>>]
  /\ log' = Append(log, Event("install", 0, 0, "", "", toBeInstalled[p], p))
  /\ nops' = nops + 1
  /\ UNCHANGED << dev, piniaActive, heap, state, registry, stores, lists,
                  regs, scopes, mq, waiting, flushPending, calls >>

\* pinia._e.stop(): the registry's scope and the scopes of its stores,
\* which were created inside it, stop with the watchers they hold.
StopPinia(p) ==
  /\ piniaActive[p]
  /\ piniaActive' = [piniaActive EXCEPT ![p] = FALSE]
  /\ stores' = [i \in 1..Len(stores) |->
                  IF stores[i].pinia = p
                    THEN [stores[i] EXCEPT !.scopeActive = FALSE]
                    ELSE stores[i]]
  /\ regs' = [r \in 1..Len(regs) |->
                IF stores[regs[r].i].pinia = p
                  THEN [regs[r] EXCEPT !.watcher = FALSE]
                  ELSE regs[r]]
  /\ log' = Append(log, Event("stopPinia", 0, 0, "", "", <<>>, p))
  /\ nops' = nops + 1
  /\ UNCHANGED << dev, attached, plugins, toBeInstalled, heap, state,
                  registry, lists, scopes, mq, waiting, flushPending,
                  activePinia, calls >>

\* ------------------------------------------------------- reactivity provider
FlushTask == [t |-> "flush", i |-> 0, tok |-> 0]
TickTask(i, tok) == [t |-> "tick", i |-> i, tok |-> tok]

\* The watcher of registration r of rg watches pinia.state.value[id] of
\* (p, id).
WatchesIn(rg, r, p, id) ==
  /\ rg[r].watcher
  /\ stores[rg[r].i].pinia = p
  /\ stores[rg[r].i].id = id

Watches(r, p, id) == WatchesIn(regs, r, p, id)

WatcherListening_always(sts, r) == TRUE

\* The guard of the watcher callback of $subscribe:
\* options.flush === 'sync' ? isSyncListening : isListening
WatcherListening(sts, r) ==
  IF regs[r].flush = "sync" THEN sts[regs[r].i].isSyncListening
                            ELSE sts[regs[r].i].isListening

\* The watcher callback of registration r: the subscriber is called with a
\* direct mutation when the guard holds.
WatcherCallback(sts, r) ==
  IF WatcherListening(sts, r)
    THEN << Event("notify", regs[r].i, regs[r].cb, direct, "watcher",
                  <<>>, 0) >>
    ELSE <<>>

RECURSIVE Flatten(_)
Flatten(ss) == IF ss = <<>> THEN <<>> ELSE Head(ss) \o Flatten(Tail(ss))

\* Watchers with flush 'sync' run inside each write that changes a cell of
\* the tree of (p, id); n is the number of such writes.
SyncWatchersIn(rg, sts, p, id, n) ==
  LET rs == SelectSeq(Indices(Len(rg)),
                      LAMBDA r : /\ WatchesIn(rg, r, p, id)
                                 /\ rg[r].flush = "sync")
  IN Repeat(Flatten([j \in 1..Len(rs) |-> WatcherCallback(sts, rs[j])]), n)

SyncWatchers(sts, p, id, n) == SyncWatchersIn(regs, sts, p, id, n)

\* Watchers with the default flush are queued once (queueJob).
QueueJobsIn(rg, p, id, n) ==
  [r \in 1..Len(rg) |->
     IF n > 0 /\ WatchesIn(rg, r, p, id) /\ rg[r].flush # "sync"
       THEN [rg[r] EXCEPT !.queued = TRUE]
       ELSE rg[r]]

QueueJobs(p, id, n) == QueueJobsIn(regs, p, id, n)

AnyQueued(rg) == \E r \in 1..Len(rg) : rg[r].queued

\* flushJobs: the queued watcher jobs run in creation order; a job whose
\* watcher was stopped does nothing.  The flush promise then resolves and
\* the nextTick callbacks chained on it become microtasks.
FlushJobs ==
  /\ mq # <<>> /\ Head(mq).t = "flush"
  /\ LET rs == SelectSeq(Indices(Len(regs)),
                         LAMBDA r : regs[r].queued /\ regs[r].watcher)
     IN log' = log \o << Event("flush", 0, 0, "", "", <<>>, 0) >> \o
               Flatten([j \in 1..Len(rs) |-> WatcherCallback(stores, rs[j])])
  /\ regs' = [r \in 1..Len(regs) |-> [regs[r] EXCEPT !.queued = FALSE]]
  /\ flushPending' = FALSE
  /\ mq' = Tail(mq) \o waiting
  /\ waiting' = <<>>
  /\ UNCHANGED << hostVars, calls, heap, state, registry, stores, lists, scopes, activePinia,
                  nops >>

ReEnable_always(sts, i, tok) == [sts EXCEPT ![i].isListening = TRUE]

ReEnable_never(sts, i, tok) == sts

\* The callback $patch passed to nextTick().then(...).
ReEnable(sts, i, tok) ==
  IF sts[i].activeListener = tok
    THEN [sts EXCEPT ![i].isListening = TRUE]
    ELSE sts

TickCallback ==
  /\ mq # <<>> /\ Head(mq).t = "tick"
  /\ stores' = ReEnable(stores, Head(mq).i, Head(mq).tok)
  /\ mq' = Tail(mq)
  /\ log' = Append(log, Event("tick", Head(mq).i, 0, "",
                              IF stores[Head(mq).i].activeListener
                                   = Head(mq).tok
                                THEN "latest" ELSE "superseded",
                              <<>>, Head(mq).tok))
  /\ UNCHANGED << hostVars, calls, heap, state, registry, lists, regs,
                  scopes, waiting, flushPending, activePinia, nops >>

\* ------------------------------------------------------- subscription lists
IndexOf(s, x) ==
  IF \E j \in 1..Len(s) : s[j] = x
    THEN CHOOSE j \in 1..Len(s) : s[j] = x /\ \A m \in 1..(j - 1) : s[m] # x
    ELSE 0

Splice(s, j) == SubSeq(s, 1, j - 1) \o SubSeq(s, j + 1, Len(s))

\* removeSubscription of registration r: removes the first entry identical
\* to the callback and, if one was removed, runs onCleanup (stopWatcher()),
\* which throws when no watcher was created.
removeSubscription_eager(ls, rg, r) ==
  LET idx == IndexOf(ls[rg[r].list], rg[r].cb)
  IN [lists |-> IF idx = 0 THEN ls
                ELSE [ls EXCEPT ![rg[r].list] = Splice(@, idx)],
      regs |-> [rg EXCEPT ![r].watcher = FALSE],
      cleaned |-> TRUE,
      thrown |-> ~rg[r].hasWatcher]

\* cleaned: onCleanup was invoked.
removeSubscription(ls, rg, r) ==
  LET idx == IndexOf(ls[rg[r].list], rg[r].cb)
  IN IF idx = 0
       THEN [lists |-> ls, regs |-> rg, cleaned |-> FALSE, thrown |-> FALSE]
       ELSE [lists |-> [ls EXCEPT ![rg[r].list] = Splice(@, idx)],
             regs |-> [rg EXCEPT ![r].watcher = FALSE],
             cleaned |-> TRUE,
             thrown |-> ~rg[r].hasWatcher]

\* The registration $subscribe makes on store i: the remover returned by
\* addSubscription and the watcher created inside the store's scope
\* (scope.run returns undefined once that scope is stopped); pos is the
\* place of the call in the history.
Registration(sts, i, cb, detached, flush, sc, pos) ==
  [i |-> i, cb |-> cb, detached |-> detached, flush |-> flush,
   list |-> sts[i].subscriptions,
   owner |-> IF ~detached /\ sc # 0 THEN sc ELSE 0,
   hasWatcher |-> sts[i].scopeActive,
   watcher |-> sts[i].scopeActive,
   queued |-> FALSE,
   pos |-> pos]

\* The first registration of callback cb on store i, 0 when there is none.
FirstRegistration(rg, i, cb) ==
  LET rs == {r \in 1..Len(rg) : rg[r].i = i /\ rg[r].cb = cb}
  IN IF rs = {} THEN 0 ELSE CHOOSE r \in rs : \A r2 \in rs : r <= r2

\* The call of the remover of registration r with result res, as recorded
\* in the history: whether onCleanup was invoked, and whether it threw.
Unsubscribed(rg, r, res) ==
  Event("unsubscribe", rg[r].i, rg[r].cb, "",
        IF ~res.cleaned THEN "absent"
        ELSE IF res.thrown THEN "threw"
        ELSE "removed",
        <<>>, r)

\* State-change subscriber callbacks that act on the subscription list when
\* they are notified of a $patch (they ignore direct changes): callback 3
\* subscribes callback 1 with detached = true, callback 4 calls the remover
\* of its own first registration, callback 5 the remover of the first
\* registration of callback 1.
ReactiveCallbacks == {3, 4, 5}
Reaction(cb) ==
  CASE cb = 3 -> "add"
    [] cb = 4 -> "removeSelf"
    [] cb = 5 -> "removeOther"
    [] OTHER -> "none"

\* What callback cb does when it is called with a mutation of the given
\* type for store i; w holds the lists, the registrations and the events of
\* the dispatch so far, base the length of the history before them.
React(sts, w, i, cb, type, base) ==
  IF type = direct \/ Reaction(cb) = "none" THEN w
  ELSE IF Reaction(cb) = "add"
    THEN [w EXCEPT
            !.lists[sts[i].subscriptions] = Append(@, 1),
            !.regs = Append(@, Registration(sts, i, 1, TRUE, "pre", 0,
                                            base + Len(w.ev) + 1)),
            !.ev = Append(@, Event("subscribe", i, 1, "pre", "detached",
                                   <<>>, 0))]
  ELSE
    LET r == FirstRegistration(w.regs, i,
                               IF Reaction(cb) = "removeSelf" THEN cb ELSE 1)
    IN IF r = 0 THEN w
       ELSE LET res == removeSubscription(w.lists, w.regs, r)
            IN [w EXCEPT !.lists = res.lists, !.regs = res.regs,
                         !.thrown = res.thrown,
                         !.ev = Append(@, Unsubscribed(w.regs, r, res))]

Iterated_live(ls, L, copy) == ls[L]

\* The array forEach runs over: the copy made by subscriptions.slice().
Iterated(ls, L, copy) == copy

\* subscriptions.slice().forEach(callback => callback(...args)), from the
\* k-th element: each callback is called and reacts; a callback that throws
\* ends the loop.
RECURSIVE ForEach(_, _, _, _, _, _, _, _)
ForEach(sts, w, i, L, copy, k, type, base) ==
  IF k > Len(Iterated(w.lists, L, copy)) \/ w.thrown THEN w
  ELSE
    LET cb == Iterated(w.lists, L, copy)[k]
        called == [w EXCEPT !.ev = Append(@, Event("notify", i, cb, type,
                                                   "trigger", <<>>, 0))]
    IN ForEach(sts, React(sts, called, i, cb, type, base), i, L, copy,
               k + 1, type, base)

\* ------------------------------------------------------------------- $patch
SlotAfterPatch_replace(slot, payload) ==
  IF payload # 0 THEN payload ELSE slot

\* $patch never assigns pinia.state.value[$id]: the slot after the call.
SlotAfterPatch(slot, payload) == slot

\* triggerSubscriptions(subscriptions, mutation, state) for the state-change
\* subscribers of store i: the lists and the registrations after the
\* callbacks have run, the events, and whether a callback threw.
triggerSubscriptions(sts, ls, rg, i, type, base) ==
  ForEach(sts, [lists |-> ls, regs |-> rg, ev |-> <<>>, thrown |-> FALSE],
          i, sts[i].subscriptions, ls[sts[i].subscriptions], 1, type, base)

StopListening_syncOnly(sts, i) ==
  [sts EXCEPT ![i].isSyncListening = FALSE]

\* isListening = isSyncListening = false
StopListening(sts, i) ==
  [sts EXCEPT ![i].isListening = FALSE, ![i].isSyncListening = FALSE]

\* The body of $patch for store i, once the arguments are evaluated: h1 is
\* the heap at the call, h2 the heap after the mutator or the merge has run.
DoPatch(i, e, type, via, h1, h2, payload) ==
  LET p == stores[i].pinia
      id == stores[i].id
      off == StopListening(stores, i)
      n == ChangedCells(h1, h2)
      queued == QueueJobs(p, id, n)
      pending == flushPending \/ AnyQueued(queued)
      myListenerId == nops + 1
      subs == lists[stores[i].subscriptions]
      sync == SyncWatchers(off, p, id, n)
      notified == triggerSubscriptions(stores, lists, queued, i, type,
                                       Len(log) + 1 + Len(sync))
  IN /\ heap' = h2
     /\ state' = [state EXCEPT ![p][id] = SlotAfterPatch(state[p][id],
                                                         payload)]
     /\ regs' = notified.regs
     /\ lists' = notified.lists
     /\ flushPending' = pending
     /\ mq' = (IF pending /\ ~flushPending THEN Append(mq, FlushTask)
                                           ELSE mq)
              \o (IF pending THEN <<>> ELSE << TickTask(i, myListenerId) >>)
     /\ waiting' = IF pending THEN Append(waiting, TickTask(i, myListenerId))
                              ELSE waiting
     /\ stores' = [off EXCEPT ![i].activeListener = myListenerId,
                              ![i].isSyncListening = TRUE]
     /\ log' = log \o << Event(e, i, 0, type, via, subs, payload) >>
                   \o sync \o notified.ev
     /\ nops' = nops + 1
     /\ UNCHANGED << hostVars, calls, registry, scopes, activePinia >>

\* store.$patch(partialState) with a freshly built payload object.
PatchObject(i, lit) ==
  LET h1 == Alloc(heap, lit)
      payload == Len(heap) + 1
  IN DoPatch(i, "patch", patchObject, "object", h1,
             mergeReactiveObjects(h1, Slot(state, i), payload), payload)

\* store.$patch(state => { state[key] = n }).
PatchFunction(i, key, n) ==
  DoPatch(i, "patch", patchFunction, "function", heap,
          SetProp(heap, Slot(state, i), key, Num(n)), 0)

\* store.$reset() of an options store: $patch($state => assign($state,
\* state())).
Reset(i) ==
  /\ isOptionsStore(stores[i].id)
  /\ LET h1 == Alloc(heap, LitStateInit)
         newState == Len(heap) + 1
     IN DoPatch(i, "reset", patchFunction, "function", h1,
                assign(h1, Slot(state, i), newState), newState)

ResetSetup_patch(i) ==
  /\ ~isOptionsStore(stores[i].id)
  /\ DoPatch(i, "reset", patchFunction, "function", heap,
             SetProp(heap, Slot(state, i), "a", Num(1)), 0)

\* store.$reset() of a setup store: throws in a build with __DEV__, and is
\* noop otherwise.
ResetSetup(i) ==
  /\ ~isOptionsStore(stores[i].id)
  /\ log' = Append(log, Event("reset", i, 0, "",
                              IF dev THEN "threw" ELSE "noop",
                              lists[stores[i].subscriptions], 0))
  /\ nops' = nops + 1
  /\ UNCHANGED << hostVars, heap, state, registry, stores, lists, regs,
                  scopes, mq, waiting, flushPending, activePinia, calls >>

SetState_replace(i, lit) ==
  /\ heap' = Alloc(heap, lit)
  /\ state' = [state EXCEPT ![stores[i].pinia][stores[i].id] = Len(heap) + 1]
  /\ log' = Append(log, Event("setState", i, 0, patchFunction, "function",
                              lists[stores[i].subscriptions], Len(heap) + 1))
  /\ nops' = nops + 1
  /\ UNCHANGED << hostVars, registry, stores, lists, regs, scopes, mq, waiting,
                  flushPending, activePinia, calls >>

\* store.$state = x with a freshly built object x:
\* $patch($state => assign($state, x)).
SetState(i, lit) ==
  LET h1 == Alloc(heap, lit)
      x == Len(heap) + 1
  IN DoPatch(i, "setState", patchFunction, "function", h1,
             assign(h1, Slot(state, i), x), x)

ResumeSync_none(sts, i) == sts

\* isSyncListening = true, the statement of $patch that follows the call
\* of nextTick.
ResumeSync(sts, i) == [sts EXCEPT ![i].isSyncListening = TRUE]

\* store.$patch(state => { state.c = 7; store.$patch(lit); state.a = n }):
\* a mutator that patches the same store.  The inner call runs to its end
\* inside the outer one: it takes the first token, calls nextTick, sets
\* isSyncListening and notifies; the outer call then finishes its mutator,
\* takes the second token, calls nextTick and notifies.  A nextTick
\* callback is chained on the flush promise when a flush is pending at the
\* call of nextTick.
PatchNested(i, lit, n) ==
  LET p == stores[i].pinia
      id == stores[i].id
      slot == Slot(state, i)
      subs == lists[stores[i].subscriptions]
      off == StopListening(stores, i)
      \* outer mutator, first statement
      h1 == SetProp(heap, slot, "c", Num(7))
      c1 == ChangedCells(heap, h1)
      \* inner $patch(lit)
      h2a == Alloc(h1, lit)
      payload == Len(h1) + 1
      h2 == mergeReactiveObjects(h2a, slot, payload)
      c2 == ChangedCells(h2a, h2)
      innerId == nops + 1
      queued1 == QueueJobs(p, id, c1 + c2)
      pending1 == flushPending \/ AnyQueued(queued1)
      mq1 == (IF pending1 /\ ~flushPending THEN Append(mq, FlushTask)
                                            ELSE mq)
             \o (IF pending1 THEN <<>> ELSE << TickTask(i, innerId) >>)
      waiting1 == IF pending1 THEN Append(waiting, TickTask(i, innerId))
                              ELSE waiting
      inner == ResumeSync(off, i)
      started ==
        << Event("patch", i, 0, patchFunction, "function", subs, 0) >>
          \o SyncWatchers(off, p, id, c1)
          \o << Event("patch", i, 0, patchObject, "object", subs, payload) >>
          \o SyncWatchers(off, p, id, c2)
      notified1 == triggerSubscriptions(stores, lists, queued1, i,
                                        patchObject, Len(log) + Len(started))
      \* outer mutator, last statement
      h3 == SetProp(h2, slot, "a", Num(n))
      c3 == ChangedCells(h2, h3)
      sync3 == SyncWatchersIn(notified1.regs, inner, p, id, c3)
      outerId == nops + 2
      queued3 == QueueJobsIn(notified1.regs, p, id, c3)
      pending2 == pending1 \/ AnyQueued(queued3)
      notified2 == triggerSubscriptions(stores, notified1.lists, queued3, i,
                                        patchFunction,
                                        Len(log) + Len(started)
                                          + Len(notified1.ev) + Len(sync3))
  IN /\ nops' = nops + 2
     /\ UNCHANGED << hostVars, calls, state, registry, scopes, activePinia >>
     /\ IF notified1.thrown
          THEN \* the inner call throws out of the outer mutator
               /\ heap' = h2
               /\ regs' = notified1.regs
               /\ lists' = notified1.lists
               /\ flushPending' = pending1
               /\ mq' = mq1
               /\ waiting' = waiting1
               /\ stores' = [inner EXCEPT ![i].activeListener = innerId]
               /\ log' = log \o started \o notified1.ev
          ELSE /\ heap' = h3
               /\ regs' = notified2.regs
               /\ lists' = notified2.lists
               /\ flushPending' = pending2
               /\ mq' = (IF pending2 /\ ~pending1 THEN Append(mq1, FlushTask)
                                                   ELSE mq1)
                        \o (IF pending2 THEN <<>>
                                        ELSE << TickTask(i, outerId) >>)
               /\ waiting' = IF pending2
                               THEN Append(waiting1, TickTask(i, outerId))
                               ELSE waiting1
               /\ stores' = [ResumeSync(inner, i)
                               EXCEPT ![i].activeListener = outerId]
               /\ log' = log \o started \o notified1.ev \o sync3
                             \o notified2.ev

\* store[key] = n: a write through the ref the store holds on its state
\* object (toRefs of the slot at construction, or the ref setup returned).
DirectWrite(i, key, n) ==
  LET p == stores[i].pinia
      id == stores[i].id
      \* a key taken by a getter is a computed without setter
      h2 == IF key \in stores[i].shadowed
              THEN heap
              ELSE SetProp(heap, stores[i].target, key, Num(n))
      c == IF stores[i].target = Slot(state, i) THEN ChangedCells(heap, h2)
                                              ELSE 0
      queued == QueueJobs(p, id, c)
      pending == flushPending \/ AnyQueued(queued)
  IN /\ heap' = h2
     /\ regs' = queued
     /\ flushPending' = pending
     /\ mq' = IF pending /\ ~flushPending THEN Append(mq, FlushTask) ELSE mq
     /\ log' = log \o << Event("write", i, 0, direct, key,
                               lists[stores[i].subscriptions], c) >>
                   \o SyncWatchers(stores, p, id, c)
     /\ nops' = nops + 1
     /\ UNCHANGED << hostVars, calls, state, registry, stores, lists, scopes, waiting,
                     activePinia >>

\* --------------------------------------------------------------- $subscribe
\* store.$subscribe(cb, {detached, flush}) called with ambient scope sc
\* (0: outside any scope).  addSubscription pushes cb on the current array;
\* the remover is registered on the ambient scope unless detached; the
\* watcher is created inside the store's scope (scope.run returns undefined
\* once that scope is stopped).
Subscribe(i, cb, detached, flush, sc) ==
  /\ IF sc = 0 THEN TRUE ELSE scopes[sc]
  /\ lists' = [lists EXCEPT ![stores[i].subscriptions] = Append(@, cb)]
  /\ regs' = Append(regs, Registration(stores, i, cb, detached, flush, sc,
                                       Len(log) + 1))
  /\ log' = Append(log, Event("subscribe", i, cb, flush,
                              IF detached THEN "detached" ELSE "attached",
                              <<>>, sc))
  /\ nops' = nops + 1
  /\ UNCHANGED << hostVars, calls, heap, state, registry, stores, scopes, mq, waiting,
                  flushPending, activePinia >>

\* A call of the remover that $subscribe returned for registration r.
Unsubscribe(r) ==
  /\ r \in 1..Len(regs)
  /\ LET res == removeSubscription(lists, regs, r)
     IN /\ lists' = res.lists
        /\ regs' = res.regs
        /\ log' = Append(log, Unsubscribed(regs, r, res))
  /\ nops' = nops + 1
  /\ UNCHANGED << hostVars, calls, heap, state, registry, stores, scopes, mq,
                  waiting, flushPending, activePinia >>

\* scope.stop() of a caller's scope: the cleanups registered with
\* onScopeDispose run in registration order, and the first one that throws
\* ends the call.
RECURSIVE RunCleanups(_, _, _)
RunCleanups(ls, rg, rs) ==
  IF rs = <<>> THEN [lists |-> ls, regs |-> rg, cleaned |-> FALSE,
                     thrown |-> FALSE]
  ELSE LET res == removeSubscription(ls, rg, Head(rs))
       IN IF res.thrown THEN res
          ELSE RunCleanups(res.lists, res.regs, Tail(rs))

\* Whether the scope still counts as active after a stop() that threw
\* depends on where the provider clears its flag: both outcomes are kept.
StopScope(sc) ==
  /\ scopes[sc]
  /\ LET rs == SelectSeq(Indices(Len(regs)), LAMBDA r : regs[r].owner = sc)
         res == RunCleanups(lists, regs, rs)
     IN /\ lists' = res.lists
        /\ regs' = res.regs
        /\ \E active \in (IF res.thrown THEN BOOLEAN ELSE {FALSE}) :
             scopes' = [scopes EXCEPT ![sc] = active]
        /\ log' = Append(log, Event("stopScope", 0, 0, "",
                                    IF res.thrown THEN "threw"
                                                  ELSE "returned",
                                    <<>>, sc))
  /\ nops' = nops + 1
  /\ UNCHANGED << hostVars, calls, heap, state, registry, stores, mq, waiting, flushPending,
                  activePinia >>

Dispose_keepEntry(i) ==
  /\ stores' = [stores EXCEPT ![i].scopeActive = FALSE,
                              ![i].subscriptions = Len(lists) + 1,
                              ![i].actionSubscriptions = Len(lists) + 2]
  /\ lists' = lists \o << <<>>, <<>> >>
  /\ regs' = [r \in 1..Len(regs) |->
                IF regs[r].i = i THEN [regs[r] EXCEPT !.watcher = FALSE]
                                 ELSE regs[r]]
  /\ registry' = IF registry[stores[i].pinia][stores[i].id] = i
                   THEN [registry EXCEPT ![stores[i].pinia][stores[i].id] = 0]
                   ELSE registry
  /\ log' = Append(log, Event("dispose", i, 0, "", "", <<>>, 0))
  /\ nops' = nops + 1
  /\ UNCHANGED << hostVars, calls, heap, state, scopes, mq, waiting,
                  flushPending, activePinia >>

Dispose_keepLists(i) ==
  /\ stores' = [stores EXCEPT ![i].scopeActive = FALSE]
  /\ regs' = [r \in 1..Len(regs) |->
                IF regs[r].i = i THEN [regs[r] EXCEPT !.watcher = FALSE]
                                 ELSE regs[r]]
  /\ registry' = [registry EXCEPT ![stores[i].pinia][stores[i].id] = 0]
  /\ log' = Append(log, Event("dispose", i, 0, "", "", <<>>, 0))
  /\ nops' = nops + 1
  /\ UNCHANGED << hostVars, calls, heap, state, lists, scopes, mq, waiting,
                  flushPending, activePinia >>

\* store.$dispose(): stops the store's scope (and the watchers created in
\* it), points both list variables at new empty arrays and deletes the
\* registry entry of the id.
Dispose_dropState(i) ==
  /\ stores' = [stores EXCEPT ![i].scopeActive = FALSE,
                              ![i].subscriptions = Len(lists) + 1,
                              ![i].actionSubscriptions = Len(lists) + 2]
  /\ lists' = lists \o << <<>>, <<>> >>
  /\ regs' = [r \in 1..Len(regs) |->
                IF regs[r].i = i THEN [regs[r] EXCEPT !.watcher = FALSE]
                                 ELSE regs[r]]
  /\ registry' = [registry EXCEPT ![stores[i].pinia][stores[i].id] = 0]
  /\ state' = [state EXCEPT ![stores[i].pinia][stores[i].id] = 0]
  /\ log' = Append(log, Event("dispose", i, 0, "", "", <<>>, 0))
  /\ nops' = nops + 1
  /\ UNCHANGED << hostVars, calls, heap, scopes, mq, waiting, flushPending,
                  activePinia >>

Dispose(i) ==
  /\ stores' = [stores EXCEPT ![i].scopeActive = FALSE,
                              ![i].subscriptions = Len(lists) + 1,
                              ![i].actionSubscriptions = Len(lists) + 2]
  /\ lists' = lists \o << <<>>, <<>> >>
  /\ regs' = [r \in 1..Len(regs) |->
                IF regs[r].i = i THEN [regs[r] EXCEPT !.watcher = FALSE]
                                 ELSE regs[r]]
  /\ registry' = [registry EXCEPT ![stores[i].pinia][stores[i].id] = 0]
  /\ log' = Append(log, Event("dispose", i, 0, "", "", <<>>, 0))
  /\ nops' = nops + 1
  /\ UNCHANGED << hostVars, calls, heap, state, scopes, mq, waiting, flushPending,
                  activePinia >>

\* -------------------------------------------------------------- wrapAction
\* Action subscribers (function identities) and what each does with the
\* context it receives: the after / onError hook it registers, if any, and
\* whether that hook returns or throws.
ActionCallbacks == {11, 12, 13}
AfterHook(cb) == IF cb = 12 THEN "throw" ELSE "ok"
OnErrorHook(cb) == IF cb = 13 THEN "throw" ELSE "ok"
\* What the bodies return or throw, and what a failing hook throws.
BodyValue == "v"
BodyError == "e"
HookError == "h"
Bodies == {"return", "throw", "resolve", "reject"}

\* store.$onAction(cb): addSubscription bound to the array that
\* actionSubscriptions named when the store was built.
OnAction(i, cb) ==
  /\ lists' = [lists EXCEPT ![stores[i].onActionList] = Append(@, cb)]
  /\ log' = Append(log, Event("subscribeAction", i, cb, "", "", <<>>, 0))
  /\ nops' = nops + 1
  /\ UNCHANGED << hostVars, calls, heap, state, registry, stores, regs, scopes, mq,
                  waiting, flushPending, activePinia >>

\* triggerSubscriptions(hooks, arg) for a hook list: the hooks run in order
\* until one throws; thrown is "" when none did.
RECURSIVE RunHooks(_, _, _, _, _)
RunHooks(i, hooks, kind, arg, call) ==
  IF hooks = <<>> THEN [ev |-> <<>>, thrown |-> ""]
  ELSE
    LET cb == Head(hooks)
        ev == Event("hook", i, cb, arg, kind, <<>>, call)
        throws == IF kind = "after" THEN AfterHook(cb) = "throw"
                                    ELSE OnErrorHook(cb) = "throw"
        rest == RunHooks(i, Tail(hooks), kind, arg, call)
    IN IF throws THEN [ev |-> << ev >>, thrown |-> HookError]
       ELSE [ev |-> << ev >> \o rest.ev, thrown |-> rest.thrown]

Outcome(i, kind, val, call) == Event("outcome", i, 0, val, kind, <<>>, call)

\* An action subscriber that uses a store of registry 2 when it is notified:
\* const other = useOpt(pinia2)
\* store.$onAction(() => { try { other.someAction() } catch (e) {} })
CrossCallbacks == {14}
\* The store of registry 2 that subscriber holds: the first one built.
OtherStore ==
  LET js == {j \in 1..Len(stores) : stores[j].pinia = 2}
  IN IF js = {} THEN 0 ELSE CHOOSE j \in js : \A j2 \in js : j <= j2

\* The call of a wrapped action of store j made by such a subscriber: the
\* wrapper activates the registry of j, notifies the action subscribers of
\* j, runs the body, which returns, and the after hooks.
NestedAction(j, call) ==
  LET subs == lists[stores[j].actionSubscriptions]
      done == RunHooks(j, subs, "after", BodyValue, call)
  IN << Event("call", j, 0, "return", "nested", subs, call) >>
       \o [k \in 1..Len(subs) |->
            Event("onAction", j, subs[k], "", "", <<>>, call)]
       \o << Event("body", j, stores[j].pinia, "return", "", <<>>, call) >>
       \o done.ev
       \o << IF done.thrown # ""
               THEN Outcome(j, "throw", done.thrown, call)
               ELSE Outcome(j, "return", BodyValue, call) >>

\* triggerSubscriptions(actionSubscriptions, {args, name, store, after,
\* onError}): each subscriber is called in order; active is the active
\* registry, which a subscriber that calls into another registry changes.
RECURSIVE NotifyAction(_, _, _, _)
NotifyAction(i, subs, call, active) ==
  IF subs = <<>> THEN [ev |-> <<>>, active |-> active]
  ELSE
    LET cb == Head(subs)
        crosses == cb \in CrossCallbacks /\ OtherStore # 0
        rest == NotifyAction(i, Tail(subs), call,
                             IF crosses
                               THEN setActivePinia(stores[OtherStore].pinia)
                               ELSE active)
    IN [ev |-> << Event("onAction", i, cb, "", "", <<>>, call) >>
                 \o (IF crosses THEN NestedAction(OtherStore, 0 - call)
                                 ELSE <<>>)
                 \o rest.ev,
        active |-> rest.active]

\* The synchronous part of a wrapped action: the action subscribers are
\* notified and register their hooks, the body runs, and
\*  - a body that throws: onError hooks, then throw;
\*  - a body that returns a promise: the chained promise is returned;
\*  - a body that returns a value: after hooks, then return.
\* The body event records the active registry at the moment the body starts.
WrappedSync(i, body, subs, call) ==
  LET notified == NotifyAction(i, subs, call,
                               setActivePinia(stores[i].pinia))
      before == notified.ev
      started == << Event("body", i, notified.active, body, "", <<>>,
                          call) >>
      failed == RunHooks(i, subs, "onError", BodyError, call)
      done == RunHooks(i, subs, "after", BodyValue, call)
  IN before \o started \o
     CASE body = "throw" ->
            failed.ev \o << Outcome(i, "throw",
                                    IF failed.thrown # "" THEN failed.thrown
                                                          ELSE BodyError,
                                    call) >>
       [] body = "return" ->
            done.ev \o << IF done.thrown # ""
                            THEN Outcome(i, "throw", done.thrown, call)
                            ELSE Outcome(i, "return", BodyValue, call) >>
       [] OTHER -> << Outcome(i, "pending", "", call) >>

\* store.someAction(): one call of a wrapped action whose body behaves as
\* body says.  Every action subscriber of the model registers both hooks.
CallAction(i, body) ==
  LET subs == lists[stores[i].actionSubscriptions]
      call == nops + 1
  IN /\ activePinia' = NotifyAction(i, subs, call,
                                    setActivePinia(stores[i].pinia)).active
     /\ log' = log \o << Event("call", i, 0, body, "", subs, call) >>
                   \o WrappedSync(i, body, subs, call)
     /\ calls' = IF body \in {"resolve", "reject"}
                   THEN Append(calls, [i |-> i, call |-> call, body |-> body,
                                       hooks |-> subs, settled |-> FALSE])
                   ELSE calls
     /\ nops' = nops + 1
     /\ UNCHANGED << hostVars, heap, state, registry, stores, lists, regs, scopes, mq,
                     waiting, flushPending >>

\* The recomputation of a getter of an options store: the computed sets
\* the active registry and calls the getter with the store.  The event
\* records the active registry at the moment the getter function starts.
Recompute(i) ==
  /\ Getters(stores[i].id) # {}
  /\ activePinia' = setActivePinia(stores[i].pinia)
  /\ log' = Append(log, Event("getter", i, stores[i].pinia, "", "", <<>>, 0))
  /\ nops' = nops + 1
  /\ UNCHANGED << hostVars, calls, heap, state, registry, stores, lists, regs,
                  scopes, mq, waiting, flushPending >>

\* The continuations attached to the promise the body returned:
\* .then(value => { after hooks; return value })
\* .catch(error => { onError hooks; return Promise.reject(error) })
WrappedAsync(i, body, subs, call) ==
  LET done == RunHooks(i, subs, "after", BodyValue, call)
      reason == IF body = "reject" THEN BodyError ELSE done.thrown
      failed == RunHooks(i, subs, "onError", reason, call)
  IN IF body = "resolve" /\ done.thrown = ""
       THEN done.ev \o << Outcome(i, "resolve", BodyValue, call) >>
       ELSE (IF body = "resolve" THEN done.ev ELSE <<>>)
            \o failed.ev
            \o << Outcome(i, "reject",
                          IF failed.thrown # "" THEN failed.thrown
                                                ELSE reason,
                          call) >>

\* The promise returned by the body of pending call c settles.
Settle(c) ==
  /\ ~calls[c].settled
  /\ calls' = [calls EXCEPT ![c].settled = TRUE]
  /\ log' = log \o WrappedAsync(calls[c].i, calls[c].body, calls[c].hooks,
                                calls[c].call)
  /\ UNCHANGED << hostVars, heap, state, registry, stores, lists, regs, scopes, mq,
                  waiting, flushPending, activePinia, nops >>

\* ----------------------------------------------------------- specifications
Instances == 1..Len(stores)
PatchLiterals == {LitNestedC3, LitNestedA5, LitA2, LitBNum, LitAObj}

\* Registry life cycle: accessors on both registries, dispose.
Next ==
  \/ /\ nops < MaxOps
     /\ \/ \E p \in Pinias, id \in StoreIds : UseStore(p, id)
        \/ \E i \in Instances : Dispose(i)
        \/ \E i \in Instances : PatchFunction(i, "a", 9)
  \/ TickCallback

Spec == Init /\ [][Next]_vars

\* Mutation of the state of the stores of one registry.
StateLiterals == {LitA2, LitAObj}

NextPatch ==
  \/ /\ nops < MaxPatchOps
     /\ \/ \E id \in StoreIds : UseStore(1, id)
        \/ \E i \in Instances, lit \in PatchLiterals : PatchObject(i, lit)
        \/ \E i \in Instances : PatchFunction(i, "a", 9)
        \/ \E i \in Instances : Reset(i)
        \/ \E i \in Instances, lit \in StateLiterals : SetState(i, lit)
  \/ TickCallback

SpecPatch == Init /\ [][NextPatch]_vars

\* Notification of the state-change subscribers of one options store.
Flushes == {"pre", "sync"}

NextNotify ==
  \/ /\ nops < MaxOps
     /\ \/ UseStore(1, "opt")
        \/ \E i \in Instances, cb \in Callbacks, f \in Flushes :
             Subscribe(i, cb, FALSE, f, 0)
        \/ \E i \in Instances : PatchObject(i, LitNestedC3)
        \/ \E i \in Instances : PatchFunction(i, "a", 9)
        \/ \E i \in Instances : SetState(i, LitA2)
        \/ \E i \in Instances, n \in {1, 5} : DirectWrite(i, "a", n)
        \/ \E i \in Instances : Reset(i)
        \/ \E i \in Instances : Dispose(i)
  \/ FlushJobs
  \/ TickCallback

SpecNotify == Init /\ [][NextNotify]_vars

\* Action subscribers and the hooks of wrapped actions.
NextAction ==
  \/ /\ nops < MaxOps
     /\ \/ \E id \in StoreIds : UseStore(1, id)
        \/ \E i \in Instances, cb \in ActionCallbacks : OnAction(i, cb)
        \/ \E i \in Instances, body \in Bodies : CallAction(i, body)
  \/ \E c \in 1..Len(calls) : Settle(c)

SpecAction == Init /\ [][NextAction]_vars

\* Configuration errors and diagnostics of one registry: the accessor with
\* and without a registry, a stopped registry, $reset of either style, a
\* declaration with a colliding getter.
NextErrors ==
  \/ /\ nops < MaxErrorOps
     /\ \/ \E p \in {0, 1}, id \in DeclaredIds : UseStore(p, id)
        \/ Install(1)
        \/ StopPinia(1)
        \/ Use(1, 1)
        \/ \E i \in Instances : Subscribe(i, 1, FALSE, "sync", 0)
        \/ \E i \in Instances : ResetSetup(i)
        \/ \E i \in Instances : Reset(i)
        \/ \E i \in Instances : PatchFunction(i, "c", 9)
        \/ \E i \in Instances : Dispose(i)
  \/ TickCallback

SpecErrors == Init /\ [][NextErrors]_vars

\* Extensions: registration before and after attachment, and the stores
\* built in between.
NextHost ==
  /\ nops < MaxOps
  /\ \/ \E p \in Pinias, pl \in Plugins : Use(p, pl)
     \/ \E p \in Pinias : Install(p)
     \/ \E p \in Pinias : UseStore(p, "opt")
     \/ \E i \in Instances : Dispose(i)

SpecHost == Init /\ [][NextHost]_vars

\* Disposal of a store with state-change and action subscribers.
NextDispose ==
  \/ /\ nops < MaxDisposeOps
     /\ \/ UseStore(1, "opt")
        \/ \E i \in Instances, cb \in Callbacks, f \in Flushes :
             Subscribe(i, cb, FALSE, f, 0)
        \/ \E i \in Instances : OnAction(i, 11)
        \/ \E i \in Instances : Dispose(i)
        \/ \E i \in Instances : PatchFunction(i, "a", 9)
        \/ \E i \in Instances : DirectWrite(i, "a", 5)
        \/ \E i \in Instances : CallAction(i, "return")
  \/ FlushJobs
  \/ TickCallback

SpecDispose == Init /\ [][NextDispose]_vars

\* Subscriptions made inside and outside a caller's effect scope.
NextScope ==
  \/ /\ nops < MaxOps
     /\ \/ UseStore(1, "opt")
        \/ \E i \in Instances, cb \in Callbacks, detached \in BOOLEAN,
              sc \in {0} \cup Scopes :
             Subscribe(i, cb, detached, "sync", sc)
        \/ \E sc \in Scopes : StopScope(sc)
        \/ \E i \in Instances : PatchFunction(i, "a", 9)
        \/ \E i \in Instances : DirectWrite(i, "a", 5)
        \/ \E i \in Instances : Dispose(i)
  \/ TickCallback

SpecScope == Init /\ [][NextScope]_vars

\* Overlapping and nested $patch calls on one store with a default-flush
\* and a sync-flush subscriber.
NextListen ==
  \/ /\ nops < MaxListenOps
     /\ \/ UseStore(1, "opt")
        \/ \E i \in Instances : Subscribe(i, 1, FALSE, "pre", 0)
        \/ \E i \in Instances : Subscribe(i, 2, FALSE, "sync", 0)
        \/ \E i \in Instances : PatchFunction(i, "a", 9)
        \/ \E i \in Instances : PatchObject(i, LitNestedC3)
        \/ \E i \in Instances : nops + 1 < MaxListenOps
                                    /\ PatchNested(i, LitNestedC3, 5)
        \/ \E i \in Instances : DirectWrite(i, "a", 5)
  \/ FlushJobs
  \/ TickCallback

SpecListen == Init /\ [][NextListen]_vars

\* The same with the microtask queue of the host: a queued microtask is
\* eventually run.
SpecListenLive ==
  SpecListen /\ WF_vars(FlushJobs) /\ WF_vars(TickCallback)

\* Stores whose setup functions call accessors, on both registries.
NextBuild ==
  \/ /\ nops < MaxBuildOps
     /\ \/ \E p \in Pinias, id \in MutualIds : UseStore(p, id)
        \/ UseStore(0, "ma")
        \/ \E i \in Instances : Dispose(i)
        \/ \E i \in Instances : PatchFunction(i, "a", 9)
  \/ TickCallback

SpecBuild == Init /\ [][NextBuild]_vars

\* Subscribers that subscribe and unsubscribe while they are notified, and
\* removers called by the application, on one store.
NextSubs ==
  \/ /\ nops < MaxSubsOps
     /\ \/ UseStore(1, "opt")
        \/ \E i \in Instances, cb \in {1} \cup ReactiveCallbacks :
             Subscribe(i, cb, FALSE, "pre", 0)
        \/ \E r \in 1..Len(regs) : Unsubscribe(r)
        \/ \E i \in Instances : PatchFunction(i, "a", 9)
  \/ FlushJobs
  \/ TickCallback

SpecSubs == Init /\ [][NextSubs]_vars

\* Stores built over state the application installed beforehand, and
\* rebuilt after $dispose.
InstalledLiterals == {LitA2, LitBNum, LitA5B7}

NextHydrate ==
  \/ /\ nops < MaxHydrateOps
     /\ \/ \E id \in {"hyd", "set", "opt", "col"} : UseStore(1, id)
        \/ \E id \in {"hyd", "set", "opt"}, lit \in InstalledLiterals :
             InstallState(1, id, lit)
        \/ \E i \in Instances : Dispose(i)
        \/ \E i \in Instances : PatchFunction(i, "a", 9)
  \/ TickCallback

SpecHydrate == Init /\ [][NextHydrate]_vars

\* Accessors, wrapped actions and getters of stores of two registries, with
\* an action subscriber on a store of registry 1 that calls an action of a
\* store of registry 2.
NextPointer ==
  /\ nops < MaxPointerOps
  /\ \/ \E p \in {0, 1, 2}, id \in {"opt", "col"} : UseStore(p, id)
     \/ \E i \in Instances : OnAction(i, 11)
     \/ \E i \in Instances, cb \in CrossCallbacks :
          /\ stores[i].pinia = 1 /\ OtherStore # 0
          /\ OnAction(i, cb)
     \/ \E i \in Instances : CallAction(i, "return")
     \/ \E i \in Instances : Recompute(i)

SpecPointer == Init /\ [][NextPointer]_vars

\* Sequences of object-form $patch calls on the stores of one registry.
NextPayload ==
  \/ /\ nops < MaxPayloadOps
     /\ \/ \E id \in StoreIds : UseStore(1, id)
        \/ \E i \in Instances, lit \in PatchLiterals : PatchObject(i, lit)
  \/ TickCallback

SpecPayload == Init /\ [][NextPayload]_vars

\* Sync-flush subscribers of one store, their removers, and later $patch
\* calls and direct writes.
NextUnsub ==
  \/ /\ nops < MaxUnsubOps
     /\ \/ UseStore(1, "opt")
        \/ \E i \in Instances, cb \in Callbacks :
             Subscribe(i, cb, FALSE, "sync", 0)
        \/ \E r \in 1..Len(regs) : Unsubscribe(r)
        \/ \E i \in Instances : PatchFunction(i, "a", 9)
        \/ \E i \in Instances : DirectWrite(i, "a", 5)
  \/ TickCallback

SpecUnsub == Init /\ [][NextUnsub]_vars

\* ------------------------------------------------------------------- claims
UseEvents == {n \in 1..Len(log) : log[n].e = "use"}

\* A $dispose() between the calls m and n deleted the registry entry of the
\* (registry, id) of call m.
DisposedBetween(m, n) ==
  \E k \in (m + 1)..(n - 1) :
    /\ log[k].e = "dispose"
    /\ stores[log[k].i].pinia = log[m].cb
    /\ stores[log[k].i].id = log[m].type

\* C2: on one registry, every accessor call after the first returns the
\* instance the first call registered, without building again, as long as
\* no dispose removed it; calls on distinct registries return distinct
\* instances, and an instance is registered only in the registry it was
\* built for.
C2_IdempotentAccessor ==
  /\ \A m, n \in UseEvents :
       (/\ m < n
        /\ log[m].cb = log[n].cb
        /\ log[m].type = log[n].type
        /\ ~DisposedBetween(m, n))
       => (log[n].i = log[m].i /\ log[n].via = "cached")
  /\ \A m, n \in UseEvents : log[m].cb # log[n].cb => log[m].i # log[n].i
  /\ \A p \in Pinias, id \in StoreIds :
       registry[p][id] # 0 =>
         /\ stores[registry[p][id]].pinia = p
         /\ stores[registry[p][id]].id = id
         /\ \A q \in Pinias \ {p}, id2 \in StoreIds :
              registry[q][id2] # registry[p][id]

\* The accessor of "opt" was called twice on registry 1 and once on
\* registry 2.
C2_Witness ==
  \E m, n, k \in UseEvents :
    /\ m < n
    /\ log[m].cb = 1 /\ log[n].cb = 1 /\ log[k].cb = 2
    /\ log[m].type = "opt" /\ log[n].type = "opt" /\ log[k].type = "opt"
    /\ ~DisposedBetween(m, n)
    /\ log[n].i = log[m].i


PatchEvents(i, via) ==
  {n \in 1..Len(log) : log[n].e = "patch" /\ log[n].i = i /\ log[n].via = via}

\* C1: for every store built by the accessor, store.$state is the object
\* the store was built on (the one its fields write to) and it is the
\* registry's slot for the id, whatever $patch calls were made: $patch
\* never replaces the slot.
C1_IdentityStable ==
  \A i \in Instances :
    /\ StateGetter(state, i) # 0
    /\ StateGetter(state, i) = stores[i].target
    /\ StateGetter(state, i) = state[stores[i].pinia][stores[i].id]

\* A store has been patched with an object and with a function.
C1_Witness ==
  \E i \in Instances :
    /\ PatchEvents(i, "object") # {}
    /\ PatchEvents(i, "function") # {}
    /\ StateGetter(state, i) = stores[i].target

\* What C4 says of the merge of payload object p into target object t: pre
\* is the heap at the call (payload built), post the heap after it.
RECURSIVE MergePost(_, _, _, _, _)
MergePost(pre, post, t, p, depth) ==
  \A key \in Keys :
    LET old == pre[t][key]
        inc == pre[p][key]
        new == post[t][key]
    IN /\ old.k # "abs" => new.k # "abs"
       /\ inc.k = "abs" =>
            /\ new = old
            /\ Deep(post, new, MaxDepth) = Deep(pre, old, MaxDepth)
       /\ (inc.k # "abs" /\ old.k = "obj" /\ inc.k = "obj") =>
            /\ new = old
            /\ depth > 0 => MergePost(pre, post, old.v, inc.v, depth - 1)
       /\ (inc.k # "abs" /\ ~(old.k = "obj" /\ inc.k = "obj")) =>
            Deep(post, new, MaxDepth) = Deep(pre, inc, MaxDepth)

\* C4: $patch(p) with an object is a deep in-place merge: every key path of
\* p holds p's value afterwards, a key whose current and incoming values are
\* both plain objects keeps its object and is merged recursively, a key p
\* does not mention keeps its value, and no key is deleted.
C4_DeepMerge ==
  [][\A i \in Instances, lit \in PatchLiterals :
       PatchObject(i, lit) =>
         MergePost(Alloc(heap, lit), heap', Slot(state, i), Len(heap) + 1,
                   MaxDepth)]_vars

\* {a:1, b:{c:2}} patched with {b:{c:3}} is {a:1, b:{c:3}}.
C4_Witness ==
  \E i \in Instances :
    /\ PatchEvents(i, "object") # {}
    /\ DeepObj(heap, Slot(state, i)) =
         [a |-> Num(1),
          b |-> [a |-> Absent, b |-> Absent, c |-> Num(3)],
          c |-> Absent]


\* The calls that write state.
Mutations == {"patch", "reset", "setState", "write"}

\* The first mutation call after event n, or the end of the history.
NextMutation(n) ==
  IF \E m \in (n + 1)..Len(log) : log[m].e \in Mutations
    THEN CHOOSE m \in (n + 1)..Len(log) :
           /\ log[m].e \in Mutations
           /\ \A m2 \in (n + 1)..(m - 1) : log[m2].e \notin Mutations
    ELSE Len(log) + 1

\* The notifications subscriber callbacks of store i received from event n
\* up to the next mutation call.
NotifiedBetween(k, n, i) ==
  SelectSeq(SubSeq(log, k, NextMutation(n) - 1),
            LAMBDA ev : ev.e = "notify" /\ ev.i = i)

NotifiedAfter(n, i) == NotifiedBetween(n, n, i)

Count(s, x) == Cardinality({j \in 1..Len(s) : s[j] = x})

\* C3: one $patch call on a store with two subscribers s1, s2 notifies
\* each exactly once, s1 before s2, inside the call, with the mutation type
\* of the call form; nothing more reaches them from the watchers afterwards.
C3_FanOut ==
  \A n \in 1..Len(log) :
    (/\ log[n].e = "patch"
     /\ Len(log[n].subs) = 2
     /\ log[n].subs[1] # log[n].subs[2])
    => NotifiedAfter(n, log[n].i) =
         << Event("notify", log[n].i, log[n].subs[1],
                  IF log[n].via = "object" THEN patchObject
                                           ELSE patchFunction,
                  "trigger", <<>>, 0),
            Event("notify", log[n].i, log[n].subs[2],
                  IF log[n].via = "object" THEN patchObject
                                           ELSE patchFunction,
                  "trigger", <<>>, 0) >>

\* A patch that changed the state of a store with a default-flush and a
\* sync-flush subscriber, after the flush and the tick that follow it.
C3_Witness ==
  \E n \in 1..Len(log) :
    /\ log[n].e = "patch"
    /\ Len(log[n].subs) = 2
    /\ log[n].subs[1] # log[n].subs[2]
    /\ NextMutation(n) = Len(log) + 1
    /\ \E m \in (n + 1)..Len(log) : log[m].e = "flush"
    /\ \E r1, r2 \in 1..Len(regs) :
         /\ regs[r1].i = log[n].i /\ regs[r1].flush = "pre"
         /\ regs[r2].i = log[n].i /\ regs[r2].flush = "sync"
    /\ mq = <<>> /\ waiting = <<>>
    /\ stores[log[n].i].isListening

\* The direct writes on store i that precede the call at event n with no
\* other call and no flush in between: the index of the first one, or n.
IsRun(k, n, i) ==
  /\ log[k].e = "write" /\ log[k].i = i
  /\ \A m \in k..(n - 1) :
       log[m].e = "notify" \/ (log[m].e = "write" /\ log[m].i = i)

RunStart(n, i) ==
  IF \E k \in 1..(n - 1) : IsRun(k, n, i)
    THEN CHOOSE k \in 1..(n - 1) :
           IsRun(k, n, i) /\ \A k2 \in 1..(k - 1) : ~IsRun(k2, n, i)
    ELSE n

\* Subscriber cb has a registration with flush 'sync' on store i.
HasSyncRegistration(i, cb) ==
  \E r \in 1..Len(regs) :
    regs[r].i = i /\ regs[r].cb = cb /\ regs[r].flush = "sync"

ResetPost(n, cbs) ==
  LET i == log[n].i
      k == RunStart(n, i)
  IN /\ \A cb \in cbs :
          Count(NotifiedBetween(k, n, i),
                Event("notify", i, cb, patchFunction, "trigger", <<>>, 0))
            = Count(log[n].subs, cb)
     /\ \A cb \in cbs :
          Len(SelectSeq(NotifiedBetween(k, n, i), LAMBDA ev : ev.cb = cb))
            = Count(log[n].subs, cb)
     /\ NextMutation(n) = Len(log) + 1 =>
          \A key \in Keys :
            LitStateInit[1][key].k # "abs" =>
              Deep(heap, heap[Slot(state, i)][key], MaxDepth)
                = Deep(LitStateInit, LitStateInit[1][key], MaxDepth)

WritesThenReset(n) ==
  /\ log[n].e = "reset"
  /\ \E m \in RunStart(n, log[n].i)..(n - 1) : log[m].e = "write"

C10_StateSetter ==
  [][\A i \in Instances :
       SetState(i, LitA2) =>
         /\ state' = state
         /\ StateGetter(state', i) = Slot(state, i)
         /\ \A key \in Keys :
              LitA2[1][key].k # "abs" =>
                heap'[Slot(state, i)][key] = LitA2[1][key]
         /\ SelectSeq(SubSeq(log', Len(log) + 1, Len(log')),
                      LAMBDA ev : ev.e = "notify" /\ ev.i = i)
              = [j \in 1..Len(lists[stores[i].subscriptions]) |->
                   Event("notify", i, lists[stores[i].subscriptions][j],
                         patchFunction, "trigger", <<>>, 0)]]_vars

\* $state was assigned on a store that has a subscriber.
C10_Witness ==
  \E n \in 1..Len(log) :
    /\ log[n].e = "setState"
    /\ Len(log[n].subs) > 0
    /\ heap[Slot(state, log[n].i)]["a"] = Num(2)

\* The events of call number c, and the behaviour of its body.
CallEvents == {n \in 1..Len(log) : log[n].e = "call"}
OfCall(n, c) == log[n].o = c /\ log[n].e \in {"onAction", "body", "hook",
                                               "outcome"}
HookCalls(c, cb, kind, arg) ==
  {n \in 1..Len(log) : /\ log[n].e = "hook" /\ log[n].o = c
                        /\ log[n].cb = cb /\ log[n].via = kind
                        /\ log[n].type = arg}
Outcomes(c) == {n \in 1..Len(log) : log[n].e = "outcome" /\ log[n].o = c
                                     /\ log[n].via # "pending"}
Settled(m) ==
  \/ log[m].type \in {"return", "throw"}
  \/ \E c \in 1..Len(calls) : calls[c].call = log[m].o /\ calls[c].settled

\* C6: when the body of a wrapped action throws synchronously, every
\* onError hook registered during the invocation has been called exactly
\* once with the thrown error, no after hook has been called, and the caller
\* then receives the same error.
C6_SyncFailure ==
  \A m \in CallEvents :
    log[m].type = "throw" =>
      /\ \A cb \in ActionCallbacks :
           /\ Cardinality(HookCalls(log[m].o, cb, "onError", BodyError))
                = Count(log[m].subs, cb)
           /\ HookCalls(log[m].o, cb, "after", BodyValue) = {}
      /\ \E n \in Outcomes(log[m].o) :
           /\ log[n].via = "throw" /\ log[n].type = BodyError
           /\ \A k \in 1..Len(log) :
                (log[k].e = "hook" /\ log[k].o = log[m].o) => k < n

\* C7: when a wrapped action returned a pending result that later failed
\* with error e, every onError hook registered during the invocation has
\* been called with e and the result handed to the caller fails with e.
C7_AsyncFailure ==
  \A m \in CallEvents :
    (log[m].type = "reject" /\ Settled(m)) =>
      /\ \A cb \in ActionCallbacks :
           Cardinality(HookCalls(log[m].o, cb, "onError", BodyError))
             >= Count(log[m].subs, cb)
      /\ \E n \in Outcomes(log[m].o) :
           log[n].via = "reject" /\ log[n].type = BodyError

\* C8: the outcome the caller of a wrapped action observes is the outcome
\* its body produced, whatever the hooks of the action subscribers do.
C8_OutcomeTransparent ==
  \A m \in CallEvents : \A n \in Outcomes(log[m].o) :
    /\ log[n].via = log[m].type
    /\ log[n].type = (IF log[m].type \in {"return", "resolve"}
                        THEN BodyValue ELSE BodyError)

\* The stop() calls on callers' scopes, and the registrations made with the
\* scope ambient before the call.
StopEvents == {n \in 1..Len(log) : log[n].e = "stopScope"}
Ambient(r) == log[regs[r].pos].o
\* Registrations of the callback of r on the same store that the scope of
\* stop call s does not own, or that were made after that call.
Others(r, s) ==
  {q \in 1..Len(regs) : /\ regs[q].i = regs[r].i /\ regs[q].cb = regs[r].cb
                         /\ (regs[q].owner # log[s].o \/ regs[q].pos > s)}

\* C9: a subscription added with detached = false while a scope is ambient
\* is out of the subscription list once stop() has been called on that
\* scope and its callback is not notified afterwards; one added with
\* detached = true stays in the list and is notified by every later $patch
\* of the store.
C9_Detached ==
  \A s \in StopEvents : \A r \in 1..Len(regs) :
    (regs[r].pos < s /\ Ambient(r) = log[s].o) =>
      IF regs[r].detached
        THEN /\ IndexOf(lists[regs[r].list], regs[r].cb) # 0
             /\ regs[r].list = stores[regs[r].i].subscriptions =>
                  \A n \in (s + 1)..Len(log) :
                    (log[n].e = "patch" /\ log[n].i = regs[r].i) =>
                      LET evs == NotifiedAfter(n, regs[r].i)
                      IN \E k \in 1..Len(evs) :
                           evs[k].cb = regs[r].cb /\ evs[k].via = "trigger"
        ELSE Others(r, s) = {} =>
               /\ IndexOf(lists[regs[r].list], regs[r].cb) = 0
               /\ \A k \in (s + 1)..Len(log) :
                    ~(/\ log[k].e = "notify" /\ log[k].i = regs[r].i
                      /\ log[k].cb = regs[r].cb)

\* The $dispose() calls, and the subscriptions made on a store before one.
DisposeEvents == {n \in 1..Len(log) : log[n].e = "dispose"}
SubscribedBefore(n, e) ==
  {k \in 1..(n - 1) : log[k].e = e /\ log[k].i = log[n].i}
ResubscribedAfter(n, cb) ==
  \E k \in (n + 1)..Len(log) :
    log[k].e = "subscribe" /\ log[k].i = log[n].i /\ log[k].cb = cb

\* C11: right after $dispose() the registry has no entry for the store's
\* id, and a state-change or action subscriber registered on the instance
\* before the dispose is not called for any later $patch, direct write or
\* action call on that instance (a state-change subscriber as long as it is
\* not registered again).
C11_Disposed ==
  /\ (log # <<>> /\ log[Len(log)].e = "dispose") =>
       LET i == log[Len(log)].i
       IN registry[stores[i].pinia][stores[i].id] = 0
  /\ \A n \in DisposeEvents :
       /\ \A k \in SubscribedBefore(n, "subscribe") :
            ~ResubscribedAfter(n, log[k].cb) =>
              \A m \in (n + 1)..Len(log) :
                ~(/\ log[m].e = "notify" /\ log[m].i = log[n].i
                  /\ log[m].cb = log[k].cb)
       /\ \A k \in SubscribedBefore(n, "subscribeAction") :
            \A m \in (n + 1)..Len(log) :
              ~(/\ log[m].e \in {"onAction", "hook"} /\ log[m].i = log[n].i
                /\ log[m].cb = log[k].cb)

\* A store with a state-change and an action subscriber was disposed and
\* then patched, written and called.
C11_Witness ==
  \E n \in DisposeEvents :
    /\ SubscribedBefore(n, "subscribe") # {}
    /\ SubscribedBefore(n, "subscribeAction") # {}
    /\ \E m \in (n + 1)..Len(log) :
         log[m].e = "patch" /\ log[m].i = log[n].i
    /\ \E m \in (n + 1)..Len(log) :
         log[m].e = "call" /\ log[m].i = log[n].i

\* The step is a $dispose() call on instance i, which was disposed before.
SecondDispose(i) ==
  /\ \E n \in DisposeEvents : log[n].i = i
  /\ Len(log') = Len(log) + 1
  /\ log'[Len(log')].e = "dispose" /\ log'[Len(log')].i = i
OthersUnchanged(i) ==
  /\ Len(stores') = Len(stores)
  /\ \A j \in Instances \ {i} : stores'[j] = stores[j]
  /\ heap' = heap /\ state' = state

BuiltEvents == {m \in UseEvents : log[m].via = "built"}
ExtendEvents(i) == {n \in 1..Len(log) : log[n].e = "extend" /\ log[n].i = i}
\* The value of key among what the extensions of ps return, the later one
\* winning (0: none returns it).
LastValue(ps, key) ==
  LET js == {j \in 1..Len(ps) : Extension(ps[j])[key] # 0}
  IN IF js = {} THEN 0
     ELSE Extension(ps[CHOOSE j \in js : \A j2 \in js : j2 <= j])[key]

\* C13: at the construction of a store every extension of the registry's
\* active list is invoked exactly once, in the order of the list, with the
\* store, the registry and the options; the store holds the properties
\* they returned, the later extension winning on a common key.
C13_PipelineOrder ==
  \A m \in BuiltEvents :
    LET ps == log[m].subs
        k == Len(ps)
        i == log[m].i
    IN /\ ExtendEvents(i) = (m - k)..(m - 1)
       /\ \A j \in 1..k :
            log[m - k + j - 1] =
              Event("extend", i, ps[j], stores[i].id, "", <<>>,
                    stores[i].pinia)
       /\ \A key \in PluginKeys : stores[i].props[key] = LastValue(ps, key)

\* A store was built with two extensions that return the same key with
\* different values.
C13_Witness ==
  \E m \in BuiltEvents :
    \E j1, j2 \in 1..Len(log[m].subs) :
      /\ j1 < j2
      /\ Extension(log[m].subs[j1]).x # 0
      /\ Extension(log[m].subs[j2]).x # 0
      /\ Extension(log[m].subs[j1]).x # Extension(log[m].subs[j2]).x

\* The extensions registered on registry p with use(), in call order.
Used(p) ==
  LET us == SelectSeq(log, LAMBDA ev : ev.e = "usePlugin" /\ ev.o = p)
  IN [j \in 1..Len(us) |-> us[j].cb]
Installs(p) == {n \in 1..Len(log) : log[n].e = "install" /\ log[n].o = p}

\* C14: before the registry is attached the extensions registered with
\* use() are in the pending buffer, in registration order, and the active
\* list has none; once install has run, however often, the buffer is empty
\* and the active list holds every registered extension exactly once, in
\* registration order.
C14_Buffered ==
  \A p \in Pinias :
    IF Installs(p) = {}
      THEN plugins[p] = <<>> /\ toBeInstalled[p] = Used(p)
      ELSE plugins[p] = Used(p) /\ toBeInstalled[p] = <<>>

\* Two extensions were buffered and install ran twice.
C14_Witness ==
  \E p \in Pinias :
    /\ Cardinality(Installs(p)) >= 2
    /\ \E n \in Installs(p) : Len(log[n].subs) >= 2

\* An extension reached the active list of the registry of event m after
\* that event: by use() on the attached registry or by a flush.
AddedAfter(m) ==
  {n \in (m + 1)..Len(log) :
     /\ log[n].o = log[m].cb
     /\ \/ log[n].e = "usePlugin" /\ log[n].via = "active"
        \/ log[n].e = "install" /\ log[n].subs # <<>>}

\* C15: a store is extended by the extensions of the active list at its
\* construction and by no other: the extenders are called for it before the
\* accessor returns it and never later, its properties do not change when
\* extensions are added or flushed afterwards, and an extension added with
\* use() on the attached registry is invoked for every store built later.
C15_NotRetroactive ==
  /\ [](\A m \in BuiltEvents :
         /\ \A n \in ExtendEvents(log[m].i) : n < m
         /\ \A n \in 1..(m - 1) :
              (/\ log[n].e = "usePlugin" /\ log[n].via = "active"
               /\ log[n].o = log[m].cb) =>
                 \E k \in ExtendEvents(log[m].i) : log[k].cb = log[n].cb)
  /\ [][\A i \in Instances : stores'[i].props = stores[i].props]_vars

\* A store was built, then an extension that returns a property reached the
\* active list, then another store was built.
C15_Witness ==
  \E m1, m2 \in BuiltEvents :
    /\ m1 < m2
    /\ \E n \in AddedAfter(m1) :
         /\ n < m2
         /\ log[n].e = "usePlugin" /\ Extension(log[n].cb) # NoProps
    /\ stores[log[m1].i].props # stores[log[m2].i].props

\* The step is a call of the accessor: its event is the last one added.
UseStep ==
  /\ Len(log') > Len(log)
  /\ log'[Len(log')].e = "use"
UseCall == log'[Len(log')]
\* The registry the call resolves to, from the argument and the active
\* registry before the call.
Resolved == IF UseCall.o # 0 THEN UseCall.o ELSE activePinia
NothingBuilt ==
  /\ state' = state /\ registry' = registry
  /\ heap' = heap /\ stores' = stores
  /\ Len(log') = Len(log) + 1

\* C16: an accessor call with no registry argument, no injected registry
\* and no active registry fails, and leaves the state trees, the registries
\* and the stores as they were.
C16_NoRegistry ==
  [][(UseStep /\ UseCall.o = 0 /\ activePinia = 0) =>
       (UseCall.via = "threw" /\ NothingBuilt)]_vars

\* The accessor was called with no registry to resolve.
C16_Witness ==
  \E n \in UseEvents : log[n].o = 0 /\ log[n].cb = 0 /\ log[n].via = "threw"

ResetStep ==
  /\ Len(log') > Len(log)
  /\ log'[Len(log) + 1].e = "reset"
ResetCall == log'[Len(log) + 1]

CollidingNames ==
  {k \in Getters(UseCall.type) :
     heap'[state'[Resolved][UseCall.type]][k].k # "abs"}
WarnedNames ==
  {log'[n].type : n \in {m \in (Len(log) + 1)..Len(log') :
                           log'[m].e = "warn" /\ log'[m].i = UseCall.i}}

C20_EveryChange ==
  mq = <<>> =>
    \A n \in 1..Len(log) :
      (/\ log[n].e \in Mutations
       /\ log[n].e = "write" => log[n].o > 0
       /\ \A d \in DisposeEvents : log[d].i # log[n].i) =>
        \A j \in 1..Len(log[n].subs) :
          \E m \in (n + 1)..Len(log) :
            /\ log[m].e = "notify" /\ log[m].i = log[n].i
            /\ log[m].cb = log[n].subs[j]
            /\ log[m].type = log[n].type

\* The nextTick callbacks of $patch calls on store i that have not run yet,
\* and whether the one of the latest $patch is among them.
PendingTicks(i) ==
  SelectSeq(mq \o waiting, LAMBDA task : task.t = "tick" /\ task.i = i)
LatestPending(i) ==
  \E k \in 1..Len(PendingTicks(i)) :
    PendingTicks(i)[k].tok = stores[i].activeListener
\* The notifications the watchers of the subscribers made in this step.
WatcherNotified ==
  SelectSeq(SubSeq(log', Len(log) + 1, Len(log')),
            LAMBDA ev : ev.e = "notify" /\ ev.via = "watcher")

\* C21: as long as the deferred callback of the latest $patch of a store
\* has not run, the listening flag of the store is false; a deferred
\* callback of an earlier $patch leaves the flag false, the one of the
\* latest $patch sets it; and no flush of the watcher jobs that runs before
\* the latest callback notifies a default-flush subscriber of the store.
C21_TokenGuard ==
  /\ [](\A i \in Instances : LatestPending(i) => ~stores[i].isListening)
  /\ [][TickCallback =>
          LET i == Head(mq).i
          IN IF Head(mq).tok = stores[i].activeListener
               THEN stores'[i].isListening
               ELSE ~stores[i].isListening /\ ~stores'[i].isListening]_vars
  /\ [][FlushJobs =>
          \A k \in 1..Len(WatcherNotified) :
            ~LatestPending(WatcherNotified[k].i)]_vars

\* A second $patch was called while the callback of an earlier one was
\* pending; the earlier callback has run, then the flush of the jobs queued
\* by the second $patch, and the callback of the second is still to run.
C21_Witness ==
  \E i \in Instances : \E m, n \in 1..Len(log) :
    /\ m < n
    /\ log[m].e = "tick" /\ log[m].i = i /\ log[m].via = "superseded"
    /\ log[n].e = "flush"
    /\ \E k \in 1..(m - 1) : log[k].e = "subscribe" /\ log[k].type = "pre"
    /\ \A k \in 1..Len(log) : log[k].e # "write"
    /\ LatestPending(i)
    /\ ~stores[i].isListening

\* The step is a $patch call: its event is the first one the step adds.
PatchStep ==
  /\ Len(log') > Len(log)
  /\ log'[Len(log) + 1].e = "patch"
\* The $patch calls on store i recorded in the events k..n of the history.
PatchedBetween(k, n, i) ==
  {m \in k..n : log[m].e = "patch" /\ log[m].i = i}
\* At event n every $patch made on store i has had its deferred callback
\* run: a callback that found its token current ran after the last $patch.
ListeningAt(n, i) ==
  \A k \in PatchedBetween(1, n, i) :
    \E m \in (k + 1)..n :
      /\ log[m].e = "tick" /\ log[m].i = i /\ log[m].via = "latest"
      /\ PatchedBetween(m, n, i) = {}
\* The first flush of the watcher jobs after event n, 0 when none ran yet.
FlushAfter(n) ==
  IF \E m \in (n + 1)..Len(log) : log[m].e = "flush"
    THEN CHOOSE m \in (n + 1)..Len(log) :
           /\ log[m].e = "flush"
           /\ \A m2 \in (n + 1)..(m - 1) : log[m2].e # "flush"
    ELSE 0
\* Subscriber cb is notified of a direct change of store i by the flush at
\* event m.
NotifiedByFlush(m, i, cb) ==
  \E q \in (m + 1)..Len(log) :
    /\ log[q] = Event("notify", i, cb, direct, "watcher", <<>>, 0)
    /\ \A q2 \in (m + 1)..q : log[q2].e = "notify"
\* The direct writes that changed a store whose $patch calls, if any, all
\* had their deferred callbacks run, and that no $patch followed before the
\* flush.
WritesWhileListening ==
  {n \in 1..Len(log) :
     /\ log[n].e = "write" /\ log[n].o > 0
     /\ ListeningAt(n, log[n].i)
     /\ FlushAfter(n) # 0
     /\ PatchedBetween(n, FlushAfter(n), log[n].i) = {}}

\* C22: when $patch returns the synchronous-listening flag is true and the
\* listening flag false; the listening flag is true whenever no microtask
\* is pending, it goes from true to false only in a $patch call, and it is
\* eventually true for good on every store; a direct write made once the
\* deferred callbacks have run is reported as a direct change to the
\* default-flush subscribers by the next flush.
C22_ListeningRestored ==
  /\ [][PatchStep =>
          LET i == log'[Len(log) + 1].i
          IN stores'[i].isSyncListening /\ ~stores'[i].isListening]_vars
  /\ [](mq = <<>> => \A i \in Instances : stores[i].isListening)
  /\ [][\A i \in Instances :
          (stores[i].isListening /\ ~stores'[i].isListening) =>
            (PatchStep /\ log'[Len(log) + 1].i = i)]_vars
  /\ <>[](\A i \in Instances : stores[i].isListening)
  /\ [](\A n \in WritesWhileListening :
          \A k \in 1..(n - 1) :
            (/\ log[k].e = "subscribe" /\ log[k].i = log[n].i
             /\ log[k].type = "pre") =>
              NotifiedByFlush(FlushAfter(n), log[n].i, log[k].cb))

\* A store with a default-flush subscriber was patched twice, the deferred
\* callbacks ran, and a direct write made afterwards has been flushed.
C22_Witness ==
  \E n \in WritesWhileListening :
    /\ Cardinality(PatchedBetween(1, n, log[n].i)) >= 2
    /\ \E k \in 1..(n - 1) :
         /\ log[k].e = "subscribe" /\ log[k].i = log[n].i
         /\ log[k].type = "pre"
         /\ \A m \in PatchedBetween(1, n, log[n].i) : k < m
    /\ stores[log[n].i].isListening
    /\ mq = <<>>

\* The notifications the step made to the subscribers of store i.
StepNotified(i) ==
  SelectSeq(SubSeq(log', Len(log) + 1, Len(log')),
            LAMBDA ev : ev.e = "notify" /\ ev.i = i)
\* The direct-change notifications a write to store i makes to the
\* sync-flush subscribers while the synchronous-listening flag is on.
SyncNotified(i) ==
  LET rs == SelectSeq(Indices(Len(regs)),
                      LAMBDA r : /\ regs[r].i = i /\ regs[r].watcher
                                 /\ regs[r].flush = "sync")
  IN [j \in 1..Len(rs) |->
        Event("notify", i, regs[rs[j]].cb, direct, "watcher", <<>>, 0)]
\* The subscribers of store i, as notified by a $patch of the given form.
PatchNotified(i, type) ==
  [j \in 1..Len(lists[stores[i].subscriptions]) |->
     Event("notify", i, lists[stores[i].subscriptions][j], type, "trigger",
           <<>>, 0)]

\* C23: a $patch whose mutator writes c, calls $patch(payload) on the same
\* store and then writes a: the first write is reported to nobody, the
\* inner $patch notifies every subscriber once, the write that follows the
\* inner call is reported to the sync-flush subscribers as a direct change
\* (the synchronous-listening flag is on again), and the outer $patch then
\* notifies every subscriber once more; the flags after the call are those
\* of a $patch and the deferred callback of the outer call is the one that
\* re-enables listening.
C23_Nested ==
  [][\A i \in Instances :
       PatchNested(i, LitNestedC3, 5) =>
         /\ StepNotified(i) =
              PatchNotified(i, patchObject)
                \o (IF heap[Slot(state, i)]["a"] # Num(5)
                      THEN SyncNotified(i) ELSE <<>>)
                \o PatchNotified(i, patchFunction)
         /\ stores'[i].isSyncListening /\ ~stores'[i].isListening
         /\ Len(PendingTicks(i)') = Len(PendingTicks(i)) + 2
         /\ PendingTicks(i)'[Len(PendingTicks(i)')].tok
              = stores'[i].activeListener]_vars

\* A nested $patch ran on a store that has a default-flush and a sync-flush
\* subscriber, and its last write changed the state.
C23_Witness ==
  \E n \in 1..(Len(log) - 1) :
    /\ log[n].e = "patch" /\ log[n].via = "function"
    /\ log[n + 1].e = "patch" /\ log[n + 1].via = "object"
    /\ Len(log[n].subs) = 2 /\ log[n].subs[1] # log[n].subs[2]
    /\ \E q \in (n + 2)..Len(log) :
         /\ log[q] = Event("notify", log[n].i, 2, direct, "watcher", <<>>, 0)
         /\ \A q2 \in (n + 2)..q : log[q2].e = "notify"

\* The events the step added to the history, and the runs of the setup
\* function of a declaration among them.
Added == (Len(log) + 1)..Len(log')
SetupRuns(id) == {n \in Added : log'[n].e = "setup" /\ log'[n].type = id}
\* The declarations a construction of id reaches through the accessors its
\* setup functions call.
Reached(id) ==
  {id} \cup {Uses(id)[j] : j \in 1..Len(Uses(id))}
       \cup UNION {{Uses(d)[j] : j \in 1..Len(Uses(d))} :
                     d \in {Uses(id)[j] : j \in 1..Len(Uses(id))}}

\* C24: an accessor call that builds a store whose setup function calls
\* accessors returns: the setup function of every declaration reached that
\* was not registered runs exactly once and no other runs, an accessor
\* called for a declaration that is registered or whose construction is
\* under way returns the instance registered for it without building, and
\* afterwards every
\* declaration reached is registered with a finished instance.
C24_Reentrant ==
  [][(/\ UseStep /\ Resolved # 0
      /\ UseCall.type \in MutualIds
      /\ registry[Resolved][UseCall.type] = 0) =>
       /\ UseCall.via = "built"
       /\ \A id \in AllIds :
            Cardinality(SetupRuns(id)) =
              IF id \in Reached(UseCall.type) /\ registry[Resolved][id] = 0
                THEN 1 ELSE 0
       /\ \A n \in Added :
            (log'[n].e = "use" /\ log'[n].via = "cached") =>
              /\ registry'[Resolved][log'[n].type] = log'[n].i
              /\ \/ registry[Resolved][log'[n].type] = log'[n].i
                 \/ \E m \in SetupRuns(log'[n].type) :
                      m < n /\ log'[m].i = log'[n].i
       /\ \A id \in Reached(UseCall.type) :
            /\ registry'[Resolved][id] # 0
            /\ stores'[registry'[Resolved][id]].id = id
            /\ registry[Resolved][id] = 0 =>
                 /\ stores'[registry'[Resolved][id]].isListening
                 /\ stores'[registry'[Resolved][id]].isSyncListening
                 /\ stores'[registry'[Resolved][id]].scopeActive
            /\ heap'[state'[Resolved][id]]["a"].k # "abs"]_vars

\* The accessors of "ma" and of "self" built their stores: the setup of
\* "mb" ran inside the one of "ma" and received the partial "ma".
C24_Witness ==
  \E n1, n2, n3 \in 1..Len(log) :
    /\ n1 < n2 /\ n2 < n3
    /\ log[n1].e = "setup" /\ log[n1].type = "ma"
    /\ log[n2].e = "use" /\ log[n2].type = "ma" /\ log[n2].via = "cached"
    /\ log[n2].i = log[n1].i
    /\ log[n3].e = "use" /\ log[n3].type = "ma" /\ log[n3].via = "built"
    /\ log[n3].i = log[n1].i
    /\ \E m \in (n1 + 1)..(n2 - 1) : log[m].e = "setup" /\ log[m].type = "mb"
    /\ \E m \in 1..Len(log) :
         log[m].e = "use" /\ log[m].type = "self" /\ log[m].via = "cached"

\* The last $dispose() of the store of event m before it, 0 when none.
LastDispose(m) ==
  LET ds == {d \in DisposeEvents : d < m /\ log[d].i = log[m].i}
  IN IF ds = {} THEN 0 ELSE CHOOSE d \in ds : \A d2 \in ds : d2 <= d
\* The action subscribers of the store of call event m at the call: those
\* registered since the store was built or last disposed, in registration
\* order (a remover is never called); and the subscribers notified of the
\* call, in order.
ActionSubscribers(m) ==
  LET evs == SelectSeq(SubSeq(log, LastDispose(m) + 1, m - 1),
                       LAMBDA ev : /\ ev.e = "subscribeAction"
                                   /\ ev.i = log[m].i)
  IN [j \in 1..Len(evs) |-> evs[j].cb]
NotifiedOfCall(m) ==
  LET evs == SelectSeq(log, LAMBDA ev : /\ ev.e = "onAction"
                                        /\ ev.o = log[m].o)
  IN [j \in 1..Len(evs) |-> evs[j].cb]
BodyStart(m) ==
  CHOOSE n \in 1..Len(log) : log[n].e = "body" /\ log[n].o = log[m].o

\* C25: on every call of a wrapped action the action subscribers of the
\* store are notified, each once and in registration order, with the store
\* and the call, before the body starts, and the hooks they register run
\* after the body.
C25_InterceptionOrder ==
  \A m \in CallEvents :
    /\ NotifiedOfCall(m) = ActionSubscribers(m)
    /\ \A n \in 1..Len(log) :
         (log[n].o = log[m].o /\ log[n].e = "onAction") =>
           (n < BodyStart(m) /\ log[n].i = log[m].i)
    /\ \A n \in 1..Len(log) :
         (log[n].o = log[m].o /\ log[n].e = "hook") => n > BodyStart(m)

\* C26: when the body of a wrapped action returned a value, or a promise
\* that has resolved, every after hook of the invocation has been called
\* exactly once with the value and no onError hook has been called; when it
\* threw, or returned a promise that has rejected, every onError hook has
\* been called exactly once with the error and no after hook.
C26_HooksByOutcome ==
  \A m \in CallEvents :
    Settled(m) =>
      LET ok == log[m].type \in {"return", "resolve"}
          hooks == {n \in 1..Len(log) :
                      log[n].e = "hook" /\ log[n].o = log[m].o}
      IN /\ \A cb \in ActionCallbacks :
              Cardinality(HookCalls(log[m].o, cb,
                                    IF ok THEN "after" ELSE "onError",
                                    IF ok THEN BodyValue ELSE BodyError))
                = Count(log[m].subs, cb)
         /\ \A n \in hooks :
              log[n].via = (IF ok THEN "after" ELSE "onError")

\* The calls the step's triggerSubscriptions made to the subscribers of
\* store i.
Dispatched(i) ==
  SelectSeq(StepNotified(i), LAMBDA ev : ev.via = "trigger")

\* C27: one triggerSubscriptions call invokes exactly the callbacks the list
\* held when the call started, in list order, also when a callback
\* subscribes another callback or calls a remover (its own or another
\* registration's) while it is notified; the change shows in the list the
\* next call starts from.
C27_Snapshot ==
  [][\A i \in Instances :
       PatchFunction(i, "a", 9) =>
         Dispatched(i) = PatchNotified(i, patchFunction)]_vars

\* A $patch found the list <<5, 1>>: callback 5 removed the entry of
\* callback 1, callback 1 was still called in that round, and a later $patch
\* found the list <<5>>.
C27_Witness ==
  \E n \in 1..Len(log), m \in 1..Len(log) :
    /\ n + 3 < m
    /\ log[n].e = "patch" /\ log[n].subs = << 5, 1 >>
    /\ log[n + 1].e = "notify" /\ log[n + 1].cb = 5
    /\ log[n + 2].e = "unsubscribe" /\ log[n + 2].cb = 1
    /\ log[n + 2].via = "removed"
    /\ log[n + 3].e = "notify" /\ log[n + 3].cb = 1
    /\ log[n + 3].via = "trigger"
    /\ log[m].e = "patch" /\ log[m].i = log[n].i /\ log[m].subs = << 5 >>

\* C28: a call of the remover of a registration removes the first entry
\* identical to its callback from the list it was registered on, and nothing
\* else, and invokes onCleanup; when the list holds no such entry the call
\* changes nothing and does not invoke onCleanup.
C28_RemoveOnce ==
  [][\A r \in 1..Len(regs) :
       Unsubscribe(r) =>
         LET L == regs[r].list
             idx == IndexOf(lists[L], regs[r].cb)
             call == log'[Len(log')]
         IN /\ call.e = "unsubscribe" /\ call.o = r
            /\ idx = 0 =>
                 /\ lists' = lists /\ regs' = regs
                 /\ call.via = "absent"
            /\ idx > 0 =>
                 /\ lists' = [lists EXCEPT ![L] = Splice(@, idx)]
                 /\ Len(lists'[L]) = Len(lists[L]) - 1
                 /\ call.via \in {"removed", "threw"}
                 /\ ~regs'[r].watcher]_vars

\* The remover of one registration was called when its callback was in the
\* list and again when it was not.
C28_Witness ==
  \E n \in 1..Len(log), m \in 1..Len(log) :
    /\ n < m
    /\ log[n].e = "unsubscribe" /\ log[n].via = "removed"
    /\ log[m].e = "unsubscribe" /\ log[m].via = "absent"
    /\ log[m].o = log[n].o

\* The calls of the remover of registration r that removed an entry.
Removals(r) ==
  {n \in 1..Len(log) : /\ log[n].e = "unsubscribe" /\ log[n].o = r
                       /\ log[n].via # "absent"}
\* The registrations whose entry is expected in the list of store i: those
\* whose own remover has not been called.
Standing(i) ==
  SelectSeq(Indices(Len(regs)),
            LAMBDA r : /\ regs[r].i = i
                       /\ \A n \in 1..Len(log) :
                            ~(log[n].e = "unsubscribe" /\ log[n].o = r))

\* C29: registrations of the same callback are independent entries: however
\* often the remover of one registration is called, it removes one entry and
\* runs its onCleanup once, and the list holds one entry for every
\* registration whose own remover was never called, in registration order.
C29_Independent ==
  /\ \A r \in 1..Len(regs) : Cardinality(Removals(r)) <= 1
  /\ \A i \in Instances :
       lists[stores[i].subscriptions]
         = [j \in 1..Len(Standing(i)) |-> regs[Standing(i)[j]].cb]

\* The result of the state initializer of the options declarations, as
\* plain data.
StateInitResult == DeepObj(Alloc(<<>>, LitStateInit), 1)

StateFields(id) ==
  {SetupResult(id)[j] : j \in {j \in 1..Len(SetupResult(id)) :
                                 SetupResult(id)[j].kind = "ref"}}

\* C31: when a setup store is built over an existing entry of the state
\* tree, each ref setup returned has the prior value of its key if the entry
\* had that key and the ref is not marked by skipHydrate, and the value
\* setup gave it otherwise; the slot is the same object and holds every
\* such ref under its key.
C31_HydratePerKey ==
  [][\A id \in {"hyd", "set"} :
       (/\ UseStore(1, id) /\ log'[Len(log')].via = "built"
        /\ state[1][id] # 0) =>
          /\ state'[1][id] = state[1][id]
          /\ \A f \in StateFields(id) :
               heap'[state[1][id]][f.key]
                 = IF heap[state[1][id]][f.key].k # "abs" /\ ~f.skip
                     THEN heap[state[1][id]][f.key]
                     ELSE f.val]_vars

\* The own keys of a heap object.
SlotKeys(h, o) == {key \in Keys : h[o][key].k # "abs"}
KindNames(id, kind) ==
  {SetupResult(id)[j].key : j \in {j \in 1..Len(SetupResult(id)) :
                                     SetupResult(id)[j].kind = kind}}
\* The names of the state fields, getters and actions of a declaration.
StateFieldNames(id) ==
  IF isOptionsStore(id) THEN SlotKeys(LitStateInit, 1)
                        ELSE KindNames(id, "ref")
GetterNames(id) ==
  IF isOptionsStore(id) THEN Getters(id) ELSE KindNames(id, "computed")
ActionNames(id) ==
  IF isOptionsStore(id) THEN Actions(id) ELSE KindNames(id, "function")
\* An accessor call built store id on registry 1, whose state tree had no
\* entry for it.
BuiltFresh(id) ==
  /\ UseStore(1, id) /\ log'[Len(log')].via = "built"
  /\ state[1][id] = 0

\* C32 as stated: after the construction of a store with no pre-existing
\* state, the keys of its state slot are exactly its state fields, and no
\* getter name and no action name is a key of the slot.
C32_ShapeAsClaimed ==
  [][\A id \in {"hyd", "set", "opt", "col"} :
       BuiltFresh(id) =>
         /\ SlotKeys(heap', state'[1][id]) = StateFieldNames(id)
         /\ SlotKeys(heap', state'[1][id])
              \cap (GetterNames(id) \cup ActionNames(id)) = {}]_vars

\* C32: after the construction of a store with no pre-existing state, the
\* keys of its state slot are exactly its state fields; a getter name or an
\* action name is a key of the slot only when the declaration also gives
\* that name to a state field.
C32_Shape ==
  [][\A id \in {"hyd", "set", "opt", "col"} :
       BuiltFresh(id) =>
         /\ SlotKeys(heap', state'[1][id]) = StateFieldNames(id)
         /\ \A name \in GetterNames(id) \cup ActionNames(id) :
              name \in SlotKeys(heap', state'[1][id])
                => name \in StateFieldNames(id)]_vars

\* The stores "col" (a getter named like a state field) and "hyd" (refs and
\* a computed) were built on registry 1 with no pre-existing state.
C32_Witness ==
  /\ \E n \in 1..Len(log), m \in 1..Len(log) :
       /\ log[n].e = "use" /\ log[n].via = "built" /\ log[n].type = "col"
       /\ log[m].e = "use" /\ log[m].via = "built" /\ log[m].type = "hyd"
       /\ \A k \in 1..Len(log) : log[k].e # "install"
  /\ state[1]["col"] # 0
  /\ "a" \in SlotKeys(heap, state[1]["col"]) \cap GetterNames("col")

\* The events the step added to the history.
StepEvents == SubSeq(log', Len(log) + 1, Len(log'))

\* C33: an accessor called with a registry it can resolve leaves that
\* registry active, and when the body of a wrapped action or the getter
\* function of a declared getter starts, the active registry is the one that
\* owns the store, whichever registry was active before.
C33_ActiveRegistry ==
  [][/\ \A p \in {0, 1, 2}, id \in {"opt", "col"} :
          (UseStore(p, id) /\ Resolve(p) # 0) => activePinia' = Resolve(p)
     /\ \A n \in 1..Len(StepEvents) :
          StepEvents[n].e \in {"body", "getter"} =>
            StepEvents[n].cb = stores[StepEvents[n].i].pinia]_vars

\* The instances of (p, id) that were disposed.
Disposed(p, id) ==
  {log[n].i : n \in {m \in 1..Len(log) :
                       /\ log[m].e = "dispose"
                       /\ stores[log[m].i].pinia = p
                       /\ stores[log[m].i].id = id}}

Payloads ==
  {log[n].o : n \in {m \in 1..Len(log) :
                       log[m].e = "patch" /\ log[m].type = patchObject}}

\* C35: an object-form $patch leaves the payload it is given with the
\* content of the literal the caller wrote, and no step changes the content
\* (nested objects included) of a payload passed to an earlier call.
C35_PayloadUntouched ==
  [][/\ \A i \in Instances, lit \in PatchLiterals :
          PatchObject(i, lit) =>
            DeepObj(heap', Len(heap) + 1) = DeepObj(Alloc(<<>>, lit), 1)
     /\ \A o \in Payloads : DeepObj(heap', o) = DeepObj(heap, o)]_vars

\* The calls of the remover of registration r, and the registrations of
\* callback cb on store i.
Unsubs(r) ==
  {n \in 1..Len(log) : log[n].e = "unsubscribe" /\ log[n].o = r}
RegsOf(i, cb) == {r \in 1..Len(regs) : regs[r].i = i /\ regs[r].cb = cb}
\* The remover of every registration of cb on store i has been called; the
\* place in the history from which that is so.
AllRemoved(i, cb) ==
  /\ RegsOf(i, cb) # {}
  /\ \A r \in RegsOf(i, cb) : Unsubs(r) # {}
RemovedAt(i, cb) ==
  CHOOSE n \in 1..Len(log) :
    /\ \E r \in RegsOf(i, cb) : n \in Unsubs(r) /\ \A u \in Unsubs(r) : n <= u
    /\ \A r \in RegsOf(i, cb) : \E u \in Unsubs(r) : u <= n
\* cb has a registration on store i made before place m, and no remover of
\* a registration of cb was called before m.
StandingAt(i, cb, m) ==
  /\ \E r \in RegsOf(i, cb) : regs[r].pos < m
  /\ \A r \in RegsOf(i, cb) : \A u \in Unsubs(r) : u > m
\* cb is among the notifications that follow the event at place m.
NotifiedNext(m, cb) ==
  \E k \in (m + 1)..Len(log) :
    /\ log[k].e = "notify" /\ log[k].cb = cb
    /\ \A j \in (m + 1)..k : log[j].e = "notify"

\* C36: once the removers returned by $subscribe for a callback have been
\* called, the callback receives no further notification from the store,
\* neither from a later $patch nor from its watcher for a later direct
\* write, and the subscribers whose removers were not called are notified
\* by every later $patch.
C36_UnsubscribeComplete ==
  \A i \in Instances, cb \in Callbacks :
    AllRemoved(i, cb) =>
      /\ \A k \in (RemovedAt(i, cb) + 1)..Len(log) :
           ~(log[k].e = "notify" /\ log[k].i = i /\ log[k].cb = cb)
      /\ \A m \in (RemovedAt(i, cb) + 1)..Len(log), cb2 \in Callbacks \ {cb} :
           (/\ log[m].e = "patch" /\ log[m].i = i
            /\ StandingAt(i, cb2, m)) => NotifiedNext(m, cb2)

====
